---- MODULE Spec2Model ----
(***************************************************************************)
(* Model of the Sonic Geometry music theory engine (src/theory-engine.js)   *)
(* and of the parts of the application around it (src/unnamed/part_000):   *)
(* the real-time chord analyzer, the audio voice map and the key-detection *)
(* buffer.                                                                 *)
(* The engine is a set of pure operations over static catalogs; its state  *)
(* in the model is the engine's two fields, the call a client is about to  *)
(* make (drawn from bounded input sets) and the last call completed        *)
(* (operation, arguments, returned value, and whether it threw).  No       *)
(* method of the engine assigns a field or writes a catalog, so the fields *)
(* are left unchanged by every action and the catalogs are definitions.    *)
(* The application's state is                                              *)
(* the voice map, the buffer of recently played notes, the app mode, the   *)
(* detected-key display and the clock.                                     *)
(*                                                                         *)
(* Frequencies are represented by their piano-key (MIDI) number k: the     *)
(* code computes 440 * 2^((k - 69) / 12), a strictly increasing function   *)
(* of k, so k identifies the frequency.                                    *)
(***************************************************************************)
EXTENDS Integers, Sequences, FiniteSets, TLC

VARIABLES currentKey, currentScale, request, op, args, ret, threw,
          voices, recentlyPlayedNotes, currentAppMode, detectedKeyDisplay,
          detected, now

engineVars == <<currentKey, currentScale, request, op, args, ret, threw>>

appVars == <<voices, recentlyPlayedNotes, currentAppMode, detectedKeyDisplay,
             detected, now>>

vars == <<currentKey, currentScale, request, op, args, ret, threw,
          voices, recentlyPlayedNotes, currentAppMode, detectedKeyDisplay,
          detected, now>>

\* ------------------------------------------------------------------------
\* Bounds of the model
\* ------------------------------------------------------------------------
\* longest note list handed to identifyChord (besides built chords)
MaxNotes == 3
\* longest note list handed to detectKey (besides whole scales)
MaxDetectNotes == 2
\* detectKey is also handed every set of 3 to MaxDetectSet pitch classes
MaxDetectSet == 3
\* octaves handed to noteToFrequency: -OctavesBelowZero..MaxOctave
OctavesBelowZero == 2
MaxOctave == 5
\* indices handed to indexToNote: -MaxIndex..MaxIndex
MaxIndex == 25
\* the analyzer is asked about every list of at most MaxSounding sounding
\* notes, and about every set of at most MaxChordTones notes listed upwards,
\* downwards, and upwards with the lowest note sounding twice
MaxSounding == 3
MaxChordTones == 4
\* the sounding notes lie within KeySpan semitones above middle C
KeySpan == 12
\* explicit voice keys the players use (three more keys are in use: one made
\* of a frequency and a pan, and the two theory tones)
MaxKeys == 14
\* notes held in the key-detection buffer, and the latest clock reading (ms)
MaxBuffered == 3
MaxTime == 7500

\* ------------------------------------------------------------------------
\* Static catalogs
\* ------------------------------------------------------------------------
NOTE_NAMES == <<"C", "C#", "D", "D#", "E", "F", "F#", "G", "G#", "A", "A#", "B">>

NOTE_NAMES_FLAT == <<"C", "Db", "D", "Eb", "E", "F", "Gb", "G", "Ab", "A", "Bb", "B">>

A4_MIDI_NUMBER == 69

\* the flatToSharp table local to noteToIndex
flatToSharp ==
    [n \in {"Db", "Eb", "Fb", "Gb", "Ab", "Bb", "Cb"} |->
        CASE n = "Db" -> "C#" [] n = "Eb" -> "D#" [] n = "Fb" -> "E"
          [] n = "Gb" -> "F#" [] n = "Ab" -> "G#" [] n = "Bb" -> "A#"
          [] n = "Cb" -> "B"]

\* Object.values(INTERVALS), in definition order
INTERVALS ==
    <<[semitones |-> 0,  justRatio |-> "1:1",   name |-> "Unison",      quality |-> "perfect"],
      [semitones |-> 1,  justRatio |-> "16:15", name |-> "Minor 2nd",   quality |-> "dissonant"],
      [semitones |-> 2,  justRatio |-> "9:8",   name |-> "Major 2nd",   quality |-> "dissonant"],
      [semitones |-> 3,  justRatio |-> "6:5",   name |-> "Minor 3rd",   quality |-> "consonant"],
      [semitones |-> 4,  justRatio |-> "5:4",   name |-> "Major 3rd",   quality |-> "consonant"],
      [semitones |-> 5,  justRatio |-> "4:3",   name |-> "Perfect 4th", quality |-> "perfect"],
      [semitones |-> 6,  justRatio |-> "45:32", name |-> "Tritone",     quality |-> "dissonant"],
      [semitones |-> 7,  justRatio |-> "3:2",   name |-> "Perfect 5th", quality |-> "perfect"],
      [semitones |-> 8,  justRatio |-> "8:5",   name |-> "Minor 6th",   quality |-> "consonant"],
      [semitones |-> 9,  justRatio |-> "5:3",   name |-> "Major 6th",   quality |-> "consonant"],
      [semitones |-> 10, justRatio |-> "9:5",   name |-> "Minor 7th",   quality |-> "dissonant"],
      [semitones |-> 11, justRatio |-> "15:8",  name |-> "Major 7th",   quality |-> "dissonant"],
      [semitones |-> 12, justRatio |-> "2:1",   name |-> "Octave",      quality |-> "perfect"]>>

\* Object.keys(SCALES), in definition order
SCALE_KEYS ==
    <<"major", "naturalMinor", "harmonicMinor", "melodicMinor", "ionian",
      "dorian", "phrygian", "lydian", "mixolydian", "aeolian", "locrian",
      "majorPentatonic", "minorPentatonic", "blues", "majorBlues",
      "chromatic", "wholeNote", "diminished">>

\* SCALES[k]: intervals and name
SCALES ==
    [k \in {SCALE_KEYS[i] : i \in 1..Len(SCALE_KEYS)} |->
        CASE k = "major" -> [intervals |-> <<0, 2, 4, 5, 7, 9, 11>>, name |-> "Major (Ionian)"]
          [] k = "naturalMinor" -> [intervals |-> <<0, 2, 3, 5, 7, 8, 10>>, name |-> "Natural Minor (Aeolian)"]
          [] k = "harmonicMinor" -> [intervals |-> <<0, 2, 3, 5, 7, 8, 11>>, name |-> "Harmonic Minor"]
          [] k = "melodicMinor" -> [intervals |-> <<0, 2, 3, 5, 7, 9, 11>>, name |-> "Melodic Minor"]
          [] k = "ionian" -> [intervals |-> <<0, 2, 4, 5, 7, 9, 11>>, name |-> "Ionian"]
          [] k = "dorian" -> [intervals |-> <<0, 2, 3, 5, 7, 9, 10>>, name |-> "Dorian"]
          [] k = "phrygian" -> [intervals |-> <<0, 1, 3, 5, 7, 8, 10>>, name |-> "Phrygian"]
          [] k = "lydian" -> [intervals |-> <<0, 2, 4, 6, 7, 9, 11>>, name |-> "Lydian"]
          [] k = "mixolydian" -> [intervals |-> <<0, 2, 4, 5, 7, 9, 10>>, name |-> "Mixolydian"]
          [] k = "aeolian" -> [intervals |-> <<0, 2, 3, 5, 7, 8, 10>>, name |-> "Aeolian"]
          [] k = "locrian" -> [intervals |-> <<0, 1, 3, 5, 6, 8, 10>>, name |-> "Locrian"]
          [] k = "majorPentatonic" -> [intervals |-> <<0, 2, 4, 7, 9>>, name |-> "Major Pentatonic"]
          [] k = "minorPentatonic" -> [intervals |-> <<0, 3, 5, 7, 10>>, name |-> "Minor Pentatonic"]
          [] k = "blues" -> [intervals |-> <<0, 3, 5, 6, 7, 10>>, name |-> "Blues Scale"]
          [] k = "majorBlues" -> [intervals |-> <<0, 2, 3, 4, 7, 9>>, name |-> "Major Blues"]
          [] k = "chromatic" -> [intervals |-> <<0, 1, 2, 3, 4, 5, 6, 7, 8, 9, 10, 11>>, name |-> "Chromatic"]
          [] k = "wholeNote" -> [intervals |-> <<0, 2, 4, 6, 8, 10>>, name |-> "Whole Tone"]
          [] k = "diminished" -> [intervals |-> <<0, 2, 3, 5, 6, 8, 9, 11>>, name |-> "Diminished (Half-Whole)"]]

\* Object.keys(CHORD_TYPES), in definition order
CHORD_KEYS ==
    <<"major", "minor", "diminished", "augmented", "sus2", "sus4",
      "major7", "minor7", "dominant7", "diminished7", "halfDiminished",
      "minorMajor7", "augmented7", "add9", "minor9", "major9">>

\* CHORD_TYPES[k]: intervals and symbol
CHORD_TYPES ==
    [k \in {CHORD_KEYS[i] : i \in 1..Len(CHORD_KEYS)} |->
        CASE k = "major"          -> [intervals |-> <<0, 4, 7>>,         symbol |-> ""]
          [] k = "minor"          -> [intervals |-> <<0, 3, 7>>,         symbol |-> "m"]
          [] k = "diminished"     -> [intervals |-> <<0, 3, 6>>,         symbol |-> "dim"]
          [] k = "augmented"      -> [intervals |-> <<0, 4, 8>>,         symbol |-> "aug"]
          [] k = "sus2"           -> [intervals |-> <<0, 2, 7>>,         symbol |-> "sus2"]
          [] k = "sus4"           -> [intervals |-> <<0, 5, 7>>,         symbol |-> "sus4"]
          [] k = "major7"         -> [intervals |-> <<0, 4, 7, 11>>,     symbol |-> "maj7"]
          [] k = "minor7"         -> [intervals |-> <<0, 3, 7, 10>>,     symbol |-> "m7"]
          [] k = "dominant7"      -> [intervals |-> <<0, 4, 7, 10>>,     symbol |-> "7"]
          [] k = "diminished7"    -> [intervals |-> <<0, 3, 6, 9>>,      symbol |-> "dim7"]
          [] k = "halfDiminished" -> [intervals |-> <<0, 3, 6, 10>>,     symbol |-> "m7b5"]
          [] k = "minorMajor7"    -> [intervals |-> <<0, 3, 7, 11>>,     symbol |-> "mMaj7"]
          [] k = "augmented7"     -> [intervals |-> <<0, 4, 8, 10>>,     symbol |-> "aug7"]
          [] k = "add9"           -> [intervals |-> <<0, 4, 7, 14>>,     symbol |-> "add9"]
          [] k = "minor9"         -> [intervals |-> <<0, 3, 7, 10, 14>>, symbol |-> "m9"]
          [] k = "major9"         -> [intervals |-> <<0, 4, 7, 11, 14>>, symbol |-> "maj9"]]

DIATONIC_PATTERNS ==
    [k \in {"major", "naturalMinor", "harmonicMinor", "dorian"} |->
        CASE k = "major" ->
               [triads   |-> <<"major", "minor", "minor", "major", "major", "minor", "diminished">>,
                numerals |-> <<"I", "ii", "iii", "IV", "V", "vi", "vii°">>,
                sevenths |-> <<"major7", "minor7", "minor7", "major7", "dominant7", "minor7", "halfDiminished">>]
          [] k = "naturalMinor" ->
               [triads   |-> <<"minor", "diminished", "major", "minor", "minor", "major", "major">>,
                numerals |-> <<"i", "ii°", "III", "iv", "v", "VI", "VII">>,
                sevenths |-> <<"minor7", "halfDiminished", "major7", "minor7", "minor7", "major7", "dominant7">>]
          [] k = "harmonicMinor" ->
               [triads   |-> <<"minor", "diminished", "augmented", "minor", "major", "major", "diminished">>,
                numerals |-> <<"i", "ii°", "III+", "iv", "V", "VI", "vii°">>,
                sevenths |-> <<"minorMajor7", "halfDiminished", "augmented7", "minor7", "dominant7", "major7", "diminished7">>]
          [] k = "dorian" ->
               [triads   |-> <<"minor", "minor", "major", "major", "minor", "diminished", "major">>,
                numerals |-> <<"i", "ii", "III", "IV", "v", "vi°", "VII">>,
                sevenths |-> <<"minor7", "minor7", "major7", "dominant7", "minor7", "halfDiminished", "major7">>]]

\* ------------------------------------------------------------------------
\* JavaScript primitives
\* ------------------------------------------------------------------------
\* the JS remainder a % b (b > 0): the sign follows the dividend
JsMod(a, b) == IF a >= 0 THEN a % b ELSE -((-a) % b)

\* Math.floor(a / b), b > 0
JsFloorDiv(a, b) == a \div b

\* Array.prototype.indexOf, 0-based, -1 when absent
IndexOf(s, x) ==
    IF \E i \in 1..Len(s) : s[i] = x
    THEN (CHOOSE i \in 1..Len(s) : s[i] = x /\ \A j \in 1..(i - 1) : s[j] # x) - 1
    ELSE -1

\* Array.prototype.includes
Includes(s, x) == \E i \in 1..Len(s) : s[i] = x

\* a plausible slip: the list spread without the Set, duplicates kept
UniqueKeepAll(s) == s

\* [...new Set(s)]: duplicates dropped, first occurrences kept in order
RECURSIVE Unique(_)
Unique(s) ==
    IF s = <<>> THEN <<>>
    ELSE LET front == Unique(SubSeq(s, 1, Len(s) - 1))
             last  == s[Len(s)]
         IN  IF Includes(front, last) THEN front ELSE Append(front, last)

\* insertion of x into an ascending sequence, after its equals
RECURSIVE InsertSorted(_, _)
InsertSorted(s, x) ==
    IF s = <<>> THEN <<x>>
    ELSE IF s[Len(s)] <= x THEN Append(s, x)
    ELSE Append(InsertSorted(SubSeq(s, 1, Len(s) - 1), x), s[Len(s)])

\* Array.prototype.sort((a, b) => a - b) on numbers
RECURSIVE SortAsc(_)
SortAsc(s) ==
    IF s = <<>> THEN <<>>
    ELSE InsertSorted(SortAsc(SubSeq(s, 1, Len(s) - 1)), s[Len(s)])

\* the value null
Null == [kind |-> "null"]

\* ------------------------------------------------------------------------
\* Note and frequency utilities
\* ------------------------------------------------------------------------
noteToIndex(note) ==
    LET normalized == IF note \in DOMAIN flatToSharp THEN flatToSharp[note] ELSE note
    IN  IndexOf(NOTE_NAMES, normalized)

\* a plausible slip: a negative remainder made positive with Math.abs
indexToNoteAbs(index, useFlats) ==
    LET r          == JsMod(index, 12)
        normalized == IF r < 0 THEN -r ELSE r
    IN  IF useFlats THEN NOTE_NAMES_FLAT[normalized + 1] ELSE NOTE_NAMES[normalized + 1]

\* a plausible slip: the useFlats flag ignored
indexToNoteSharpOnly(index, useFlats) ==
    LET normalized == JsMod(JsMod(index, 12) + 12, 12)
    IN  NOTE_NAMES[normalized + 1]

indexToNote(index, useFlats) ==
    LET normalized == JsMod(JsMod(index, 12) + 12, 12)
    IN  IF useFlats THEN NOTE_NAMES_FLAT[normalized + 1] ELSE NOTE_NAMES[normalized + 1]

\* a plausible slip: octave 0 taken to start at key 0
noteToFrequencyOctaveFromZero(note, octave) ==
    LET noteIndex == noteToIndex(note)
        midiNote  == octave * 12 + noteIndex
    IN  midiNote

\* a plausible slip: octaves below 0 clamped to 0
noteToFrequencyClampedOctave(note, octave) ==
    LET noteIndex == noteToIndex(note)
        clamped   == IF octave < 0 THEN 0 ELSE octave
        midiNote  == (clamped + 1) * 12 + noteIndex
    IN  midiNote

\* the key number midiNote of noteToFrequency, which stands for the frequency
noteToFrequency(note, octave) ==
    LET noteIndex == noteToIndex(note)
        midiNote  == (octave + 1) * 12 + noteIndex
    IN  midiNote

\* frequencyToNote on the frequency of key number freq: for that frequency
\* Math.round(12 * Math.log2(freq / 440) + 69) is the key number itself
frequencyToNote(freq) ==
    LET midiNote == freq
    IN  indexToNote(JsMod(midiNote, 12), FALSE)

\* a plausible slip: the distance taken as an absolute difference
getIntervalAbs(noteA, noteB) ==
    LET indexA    == noteToIndex(noteA)
        indexB    == noteToIndex(noteB)
        semitones == IF indexB >= indexA THEN indexB - indexA ELSE indexA - indexB
        found     == {i \in 1..Len(INTERVALS) : INTERVALS[i].semitones = semitones}
        first     == CHOOSE i \in found : \A j \in found : i <= j
    IN  [kind      |-> "interval",
         semitones |-> semitones,
         halfSteps |-> semitones,
         justRatio |-> IF found # {} THEN INTERVALS[first].justRatio ELSE "N/A",
         name      |-> IF found # {} THEN INTERVALS[first].name
                       ELSE ToString(semitones) \o " semitones",
         quality   |-> IF found # {} THEN INTERVALS[first].quality ELSE "unknown"]


\* getInterval; the two derived numbers wholeSteps (semitones / 2) and
\* frequencyRatio (2^(semitones / 12) to 4 decimals) are functions of semitones
getInterval(noteA, noteB) ==
    LET indexA    == noteToIndex(noteA)
        indexB    == noteToIndex(noteB)
        semitones == JsMod((indexB - indexA) + 12, 12)
        found     == {i \in 1..Len(INTERVALS) : INTERVALS[i].semitones = semitones}
        first     == CHOOSE i \in found : \A j \in found : i <= j
    IN  [kind      |-> "interval",
         semitones |-> semitones,
         halfSteps |-> semitones,
         justRatio |-> IF found # {} THEN INTERVALS[first].justRatio ELSE "N/A",
         name      |-> IF found # {} THEN INTERVALS[first].name
                       ELSE ToString(semitones) \o " semitones",
         quality   |-> IF found # {} THEN INTERVALS[first].quality ELSE "unknown"]

\* ------------------------------------------------------------------------
\* Scale operations
\* ------------------------------------------------------------------------
\* a plausible slip: the notes put in chromatic order instead of template order
getScaleNotesSorted(root, scaleType) ==
    IF scaleType \notin DOMAIN SCALES THEN Null
    ELSE LET scale     == SCALES[scaleType]
             rootIndex == noteToIndex(root)
             indices   == SortAsc([i \in 1..Len(scale.intervals) |->
                                      JsMod(rootIndex + scale.intervals[i], 12)])
         IN  [kind        |-> "scale",
              root        |-> root,
              type        |-> scaleType,
              name        |-> root \o " " \o scale.name,
              notes       |-> [i \in 1..Len(indices) |-> indexToNote(indices[i], FALSE)],
              intervals   |-> scale.intervals,
              noteIndices |-> indices]

getScaleNotes(root, scaleType) ==
    IF scaleType \notin DOMAIN SCALES THEN Null
    ELSE LET scale     == SCALES[scaleType]
             rootIndex == noteToIndex(root)
         IN  [kind        |-> "scale",
              root        |-> root,
              type        |-> scaleType,
              name        |-> root \o " " \o scale.name,
              notes       |-> [i \in 1..Len(scale.intervals) |->
                                  indexToNote(JsMod(rootIndex + scale.intervals[i], 12), FALSE)],
              intervals   |-> scale.intervals,
              noteIndices |-> [i \in 1..Len(scale.intervals) |->
                                  JsMod(rootIndex + scale.intervals[i], 12)]]

isNoteInScale(note, root, scaleType) ==
    LET scale == getScaleNotes(root, scaleType)
    IN  IF scale = Null THEN FALSE ELSE Includes(scale.notes, note)

\* ------------------------------------------------------------------------
\* Chord operations
\* ------------------------------------------------------------------------
\* a plausible slip: the octave taken from the template offset alone
chordToneOctaveFromOffset(rootIndex, interval) == 4 + JsFloorDiv(interval, 12)

\* the octave of one chord tone in buildChord's frequencies
chordToneOctave(rootIndex, interval) == 4 + JsFloorDiv(rootIndex + interval, 12)

buildChord(root, chordType) ==
    IF chordType \notin DOMAIN CHORD_TYPES THEN Null
    ELSE LET chord     == CHORD_TYPES[chordType]
             rootIndex == noteToIndex(root)
             notes     == [i \in 1..Len(chord.intervals) |->
                              indexToNote(JsMod(rootIndex + chord.intervals[i], 12), FALSE)]
         IN  [kind        |-> "chord",
              root        |-> root,
              type        |-> chordType,
              name        |-> root \o chord.symbol,
              notes       |-> notes,
              intervals   |-> chord.intervals,
              frequencies |-> [i \in 1..Len(notes) |->
                   [note      |-> notes[i],
                    octave    |-> chordToneOctave(rootIndex, chord.intervals[i]),
                    frequency |-> noteToFrequency(notes[i],
                                     chordToneOctave(rootIndex, chord.intervals[i]))]]]

\* a plausible slip: the useSevenths flag ignored
getDiatonicChordsTriadsOnly(root, scaleType, useSevenths) ==
    IF scaleType \notin DOMAIN DIATONIC_PATTERNS THEN Null
    ELSE LET pattern    == DIATONIC_PATTERNS[scaleType]
             scale      == getScaleNotes(root, scaleType)
             chordTypes == pattern.triads
         IN  [kind    |-> "diatonic",
              entries |-> [i \in 1..Len(scale.notes) |->
                   [degree    |-> i,
                    numeral   |-> pattern.numerals[i],
                    root      |-> scale.notes[i],
                    chord     |-> buildChord(scale.notes[i], chordTypes[i]),
                    chordType |-> chordTypes[i]]]]

getDiatonicChords(root, scaleType, useSevenths) ==
    IF scaleType \notin DOMAIN DIATONIC_PATTERNS THEN Null
    ELSE LET pattern    == DIATONIC_PATTERNS[scaleType]
             scale      == getScaleNotes(root, scaleType)
             chordTypes == IF useSevenths THEN pattern.sevenths ELSE pattern.triads
         IN  [kind    |-> "diatonic",
              entries |-> [i \in 1..Len(scale.notes) |->
                   [degree    |-> i,
                    numeral   |-> pattern.numerals[i],
                    root      |-> scale.notes[i],
                    chord     |-> buildChord(scale.notes[i], chordTypes[i]),
                    chordType |-> chordTypes[i]]]]

\* a plausible slip: the names de-duplicated as spelled
uniqueNotesAsSpelled(noteNames) == Unique(noteNames)

\* uniqueNotes of identifyChord and detectKey: canonical sharp names, de-duplicated
uniqueNotesOf(noteNames) ==
    Unique([i \in 1..Len(noteNames) |-> indexToNote(noteToIndex(noteNames[i]), FALSE)])

\* the sorted offsets of all notes from one candidate root
intervalsFrom(potentialRoot, uniqueNotes) ==
    LET rootIndex == noteToIndex(potentialRoot)
    IN  SortAsc([i \in 1..Len(uniqueNotes) |->
                    JsMod((noteToIndex(uniqueNotes[i]) - rootIndex) + 12, 12)])

\* a plausible slip: a template matches as soon as it is a prefix of the offsets
firstMatchingTypePrefix(intervals, k) ==
    LET hits == {j \in k..Len(CHORD_KEYS) :
                    LET t == SortAsc(CHORD_TYPES[CHORD_KEYS[j]].intervals)
                    IN  /\ Len(t) <= Len(intervals)
                        /\ SubSeq(intervals, 1, Len(t)) = t}
    IN  IF hits = {} THEN 0 ELSE CHOOSE j \in hits : \A h \in hits : j <= h

\* the inner loop: the first chord type, from position k on, whose sorted
\* template equals the offsets; 0 when there is none
RECURSIVE firstMatchingType(_, _)
firstMatchingType(intervals, k) ==
    IF k > Len(CHORD_KEYS) THEN 0
    ELSE IF intervals = SortAsc(CHORD_TYPES[CHORD_KEYS[k]].intervals) THEN k
    ELSE firstMatchingType(intervals, k + 1)

\* the two loops of identifyChord over the candidate roots, from position r on
RECURSIVE searchChord(_, _, _)
searchChord(roots, uniqueNotes, r) ==
    IF r > Len(roots)
    THEN [kind |-> "unknown", notes |-> uniqueNotes, name |-> "Unknown", confidence |-> 0]
    ELSE LET k == firstMatchingType(intervalsFrom(roots[r], uniqueNotes), 1)
         IN  IF k # 0
             THEN [f \in DOMAIN buildChord(roots[r], CHORD_KEYS[k]) \cup {"confidence"} |->
                      IF f = "confidence" THEN 1
                      ELSE buildChord(roots[r], CHORD_KEYS[k])[f]]
             ELSE searchChord(roots, uniqueNotes, r + 1)

\* a plausible slip: candidate roots tried in NOTE_NAMES order
identifyChordCanonicalRoots(notes) ==
    LET uniqueNotes == uniqueNotesOf(notes)
        indices     == SortAsc([i \in 1..Len(uniqueNotes) |-> noteToIndex(uniqueNotes[i])])
        roots       == [i \in 1..Len(indices) |-> indexToNote(indices[i], FALSE)]
    IN  IF Len(uniqueNotes) < 2 THEN Null
        ELSE searchChord(roots, uniqueNotes, 1)

\* a plausible slip: the early return for fewer than 2 notes left out
identifyChordNoGuard(notes) ==
    LET uniqueNotes == uniqueNotesOf(notes)
    IN  searchChord(uniqueNotes, uniqueNotes, 1)

identifyChord(notes) ==
    LET uniqueNotes == uniqueNotesOf(notes)
    IN  IF Len(uniqueNotes) < 2 THEN Null
        ELSE searchChord(uniqueNotes, uniqueNotes, 1)


\* ------------------------------------------------------------------------
\* Key detection
\* ------------------------------------------------------------------------
\* the scale types detectKey tries for every root
DETECT_SCALES == <<"major", "naturalMinor", "dorian", "mixolydian">>

\* a plausible slip: the filter left out, every played note counted as matched
countInScaleLength(uniqueNotes, scaleNotes) == Len(uniqueNotes)

\* uniqueNotes.filter(n => scale.notes.includes(n)).length
RECURSIVE countInScale(_, _)
countInScale(uniqueNotes, scaleNotes) ==
    IF uniqueNotes = <<>> THEN 0
    ELSE countInScale(Tail(uniqueNotes), scaleNotes)
           + (IF Includes(scaleNotes, Head(uniqueNotes)) THEN 1 ELSE 0)

\* a plausible slip: a candidate kept when its score is 0
RECURSIVE collectKeysKeepingZero(_, _)
collectKeysKeepingZero(uniqueNotes, k) ==
    IF k >= Len(NOTE_NAMES) * Len(DETECT_SCALES) THEN <<>>
    ELSE LET root       == NOTE_NAMES[(k \div Len(DETECT_SCALES)) + 1]
             scaleType  == DETECT_SCALES[(k % Len(DETECT_SCALES)) + 1]
             scale      == getScaleNotes(root, scaleType)
             inScale    == countInScale(uniqueNotes, scale.notes)
             outOfScale == Len(uniqueNotes) - inScale
             num        == inScale - outOfScale * 2
             rest       == collectKeysKeepingZero(uniqueNotes, k + 1)
         IN  IF num >= 0
             THEN <<[key          |-> root \o " " \o scale.name,
                     root         |-> root,
                     scale        |-> scaleType,
                     score        |-> [num |-> num, den |-> Len(uniqueNotes)],
                     matchedNotes |-> inScale,
                     totalNotes   |-> Len(uniqueNotes)]>> \o rest
             ELSE rest

\* the two loops of detectKey from candidate k on (k counts from 0, root
\* outer, scale type inner); a score is the fraction num / den
RECURSIVE collectKeys(_, _)
collectKeys(uniqueNotes, k) ==
    IF k >= Len(NOTE_NAMES) * Len(DETECT_SCALES) THEN <<>>
    ELSE LET root       == NOTE_NAMES[(k \div Len(DETECT_SCALES)) + 1]
             scaleType  == DETECT_SCALES[(k % Len(DETECT_SCALES)) + 1]
             scale      == getScaleNotes(root, scaleType)
             inScale    == countInScale(uniqueNotes, scale.notes)
             outOfScale == Len(uniqueNotes) - inScale
             num        == inScale - outOfScale * 2
             rest       == collectKeys(uniqueNotes, k + 1)
         IN  IF num > 0
             THEN <<[key          |-> root \o " " \o scale.name,
                     root         |-> root,
                     scale        |-> scaleType,
                     score        |-> [num |-> num, den |-> Len(uniqueNotes)],
                     matchedNotes |-> inScale,
                     totalNotes   |-> Len(uniqueNotes)]>> \o rest
             ELSE rest

\* a.score < b.score, for fractions of positive denominators
ScoreLess(a, b) == a.score.num * b.score.den < b.score.num * a.score.den

\* a plausible slip: an unstable sort, x put before its equals
RECURSIVE InsertByScoreBeforeEquals(_, _)
InsertByScoreBeforeEquals(s, x) ==
    IF s = <<>> THEN <<x>>
    ELSE IF ScoreLess(x, s[Len(s)]) THEN Append(s, x)
    ELSE Append(InsertByScoreBeforeEquals(SubSeq(s, 1, Len(s) - 1), x), s[Len(s)])

\* insertion of x into a list sorted by score descending, after its equals
RECURSIVE InsertByScore(_, _)
InsertByScore(s, x) ==
    IF s = <<>> THEN <<x>>
    ELSE IF ~ScoreLess(s[Len(s)], x) THEN Append(s, x)
    ELSE Append(InsertByScore(SubSeq(s, 1, Len(s) - 1), x), s[Len(s)])

\* a plausible slip: the sort left out
SortByScoreKeepOrder(s) == s

\* results.sort((a, b) => b.score - a.score), a stable sort
RECURSIVE SortByScoreDesc(_)
SortByScoreDesc(s) ==
    IF s = <<>> THEN <<>>
    ELSE InsertByScore(SortByScoreDesc(SubSeq(s, 1, Len(s) - 1)), s[Len(s)])

\* Array.prototype.slice(0, n)
Slice0(s, n) == SubSeq(s, 1, IF Len(s) < n THEN Len(s) ELSE n)

\* a plausible slip: the early return for fewer than 2 notes left out
detectKeyNoGuard(notes) ==
    LET uniqueNotes == uniqueNotesOf(notes)
    IN  [kind |-> "keys",
         list |-> Slice0(SortByScoreDesc(collectKeys(uniqueNotes, 0)), 5)]

\* detectKey on note names
detectKey(notes) ==
    LET uniqueNotes == uniqueNotesOf(notes)
    IN  IF Len(uniqueNotes) < 2 THEN [kind |-> "keys", list |-> <<>>]
        ELSE [kind |-> "keys",
              list |-> Slice0(SortByScoreDesc(collectKeys(uniqueNotes, 0)), 5)]

\* ------------------------------------------------------------------------
\* Modulation
\* ------------------------------------------------------------------------
\* one pushed pivot: the shared chord with its numeral in either key
pivotEntry(chordA, chordB, rootA, scaleA, rootB, scaleB) ==
    [chord      |-> chordA.chord.name,
     inKeyA     |-> chordA.numeral \o " of " \o rootA \o " " \o scaleA,
     inKeyB     |-> chordB.numeral \o " of " \o rootB \o " " \o scaleB,
     suggestion |-> "Play " \o chordA.chord.name \o ", then move to "
                      \o rootB \o " " \o scaleB]

\* a plausible slip: two degrees matched by chord root, whatever the quality
findPivotChordsByRoot(rootA, scaleA, rootB, scaleB) ==
    LET chordsA == getDiatonicChords(rootA, scaleA, FALSE)
        chordsB == getDiatonicChords(rootB, scaleB, FALSE)
    IN  IF chordsA = Null \/ chordsB = Null THEN [kind |-> "pivots", list |-> <<>>]
        ELSE LET a     == chordsA.entries
                 b     == chordsB.entries
                 pairs == [k \in 1..(Len(a) * Len(b)) |->
                              <<((k - 1) \div Len(b)) + 1, ((k - 1) % Len(b)) + 1>>]
                 hits  == SelectSeq(pairs, LAMBDA q : a[q[1]].root = b[q[2]].root)
             IN  [kind |-> "pivots",
                  list |-> [k \in 1..Len(hits) |->
                     pivotEntry(a[hits[k][1]], b[hits[k][2]], rootA, scaleA, rootB, scaleB)]]

\* findPivotChords: chordsA in the outer loop, chordsB in the inner one
findPivotChords(rootA, scaleA, rootB, scaleB) ==
    LET chordsA == getDiatonicChords(rootA, scaleA, FALSE)
        chordsB == getDiatonicChords(rootB, scaleB, FALSE)
    IN  IF chordsA = Null \/ chordsB = Null THEN [kind |-> "pivots", list |-> <<>>]
        ELSE LET a     == chordsA.entries
                 b     == chordsB.entries
                 pairs == [k \in 1..(Len(a) * Len(b)) |->
                              <<((k - 1) \div Len(b)) + 1, ((k - 1) % Len(b)) + 1>>]
                 hits  == SelectSeq(pairs,
                              LAMBDA q : a[q[1]].chord.name = b[q[2]].chord.name)
             IN  [kind |-> "pivots",
                  list |-> [k \in 1..Len(hits) |->
                     pivotEntry(a[hits[k][1]], b[hits[k][2]], rootA, scaleA, rootB, scaleB)]]

\* a plausible slip: the same root called parallel whatever the modes
getKeyRelationshipSameRootParallel(semitones, fromScale, toScale) ==
    IF semitones = 0 THEN "Parallel (same root, different mode)"
    ELSE IF semitones = 7 \/ semitones = 5 THEN "Dominant/Subdominant relationship"
    ELSE IF semitones = 3 \/ semitones = 9 THEN "Relative Major/Minor"
    ELSE IF semitones = 2 \/ semitones = 10 THEN "Whole step away"
    ELSE IF semitones = 1 \/ semitones = 11 THEN "Half step away (dramatic!)"
    ELSE ToString(semitones) \o " semitones apart"

getKeyRelationship(semitones, fromScale, toScale) ==
    IF semitones = 0 /\ fromScale # toScale THEN "Parallel (same root, different mode)"
    ELSE IF semitones = 7 \/ semitones = 5 THEN "Dominant/Subdominant relationship"
    ELSE IF semitones = 3 \/ semitones = 9 THEN "Relative Major/Minor"
    ELSE IF semitones = 2 \/ semitones = 10 THEN "Whole step away"
    ELSE IF semitones = 1 \/ semitones = 11 THEN "Half step away (dramatic!)"
    ELSE ToString(semitones) \o " semitones apart"

getModulationTechniques(semitones) ==
    <<"Use a pivot chord shared by both keys", "Use a ii-V-I in the new key">>
      \o (IF semitones = 1 \/ semitones = 11
          THEN <<"Direct modulation (bold key change)",
                 "Chromatic bass line leading to new key">>
          ELSE <<>>)
      \o (IF semitones = 7
          THEN <<"Tonicize V (make V feel like temporary I)",
                 "Use V/V (secondary dominant)">>
          ELSE <<>>)
      \o (IF semitones = 5 THEN <<"Plagal cadence to new key">> ELSE <<>>)

\* SCALES[scaleType]?.name || scaleType
scaleNameOrKey(scaleType) ==
    IF scaleType \in DOMAIN SCALES THEN SCALES[scaleType].name ELSE scaleType

suggestModulation(fromRoot, fromScale, toRoot, toScale) ==
    LET pivots    == findPivotChords(fromRoot, fromScale, toRoot, toScale).list
        fromIndex == noteToIndex(fromRoot)
        toIndex   == noteToIndex(toRoot)
        distance  == JsMod((toIndex - fromIndex) + 12, 12)
    IN  [kind             |-> "modulation",
         fromKey          |-> fromRoot \o " " \o scaleNameOrKey(fromScale),
         toKey            |-> toRoot \o " " \o scaleNameOrKey(toScale),
         semitoneDistance |-> distance,
         relationship     |-> getKeyRelationship(distance, fromScale, toScale),
         pivotChords      |-> Slice0(pivots, 3),
         techniques       |-> getModulationTechniques(distance)]

\* ------------------------------------------------------------------------
\* The real-time chord analyzer (ChordAnalyzer)
\* ------------------------------------------------------------------------
\* this.intervals: the names of two-note sounds, by semitone count
ANALYZER_INTERVALS ==
    [k \in {3, 4, 5, 7, 12} |->
        CASE k = 3  -> "Minor Third"
          [] k = 4  -> "Major Third"
          [] k = 5  -> "Perfect Fourth"
          [] k = 7  -> "Perfect Fifth"
          [] k = 12 -> "Octave"]

\* this.chords: the chord names, by the joined list of semitone offsets
ANALYZER_CHORDS ==
    [k \in {"0-4-7", "0-3-7", "0-4-7-11", "0-3-7-10", "0-4-7-10", "0-3-6", "0-4-8"} |->
        CASE k = "0-4-7"    -> "Major Triad"
          [] k = "0-3-7"    -> "Minor Triad"
          [] k = "0-4-7-11" -> "Major 7th"
          [] k = "0-3-7-10" -> "Minor 7th"
          [] k = "0-4-7-10" -> "Dominant 7th"
          [] k = "0-3-6"    -> "Diminished"
          [] k = "0-4-8"    -> "Augmented"]

\* insertion of a sounding note into a list ascending by frequency, after its equals
RECURSIVE InsertByFreq(_, _)
InsertByFreq(s, x) ==
    IF s = <<>> THEN <<x>>
    ELSE IF s[Len(s)].freq <= x.freq THEN Append(s, x)
    ELSE Append(InsertByFreq(SubSeq(s, 1, Len(s) - 1), x), s[Len(s)])

\* activeNotes.sort((a, b) => a.freq - b.freq)
RECURSIVE SortByFreq(_)
SortByFreq(s) ==
    IF s = <<>> THEN <<>>
    ELSE InsertByFreq(SortByFreq(SubSeq(s, 1, Len(s) - 1)), s[Len(s)])

\* a plausible slip: the offsets reduced to one octave
semitonesFromRootModTwelve(sorted) ==
    [i \in 1..Len(sorted) |-> JsMod(sorted[i].freq - sorted[1].freq, 12)]

\* Math.round(12 * log2(freq / root.freq)): with frequencies as key numbers,
\* the difference of the key numbers
semitonesFromRoot(sorted) ==
    [i \in 1..Len(sorted) |-> sorted[i].freq - sorted[1].freq]

\* uniqueSemitones.join('-')
RECURSIVE JoinDash(_)
JoinDash(s) ==
    IF s = <<>> THEN ""
    ELSE IF Len(s) = 1 THEN ToString(s[1])
    ELSE JoinDash(SubSeq(s, 1, Len(s) - 1)) \o "-" \o ToString(s[Len(s)])

\* the chord name: the table entry of the joined offsets, else for exactly two
\* distinct offsets the interval's name or 'Interval', else 'Unknown'
analyzerChordName(uniqueSemitones) ==
    LET key == JoinDash(uniqueSemitones)
    IN  IF key \in DOMAIN ANALYZER_CHORDS THEN ANALYZER_CHORDS[key]
        ELSE IF Len(uniqueSemitones) = 2
             THEN IF uniqueSemitones[2] \in DOMAIN ANALYZER_INTERVALS
                  THEN ANALYZER_INTERVALS[uniqueSemitones[2]]
                  ELSE "Interval"
        ELSE "Unknown"

\* a plausible slip: the tritone left out of the dissonant offsets
analyzerStabilityNoTritone(uniqueSemitones) ==
    IF \E i \in 1..Len(uniqueSemitones) :
          JsMod(uniqueSemitones[i], 12) \in {1, 2, 10, 11}
    THEN "Dissonant" ELSE "Consonant"

analyzerStability(uniqueSemitones) ==
    IF \E i \in 1..Len(uniqueSemitones) :
          JsMod(uniqueSemitones[i], 12) \in {1, 2, 6, 10, 11}
    THEN "Dissonant" ELSE "Consonant"

\* ChordAnalyzer.identify; the ratios field (the frequency ratios printed
\* with two decimals) is left out
identify(activeNotes) ==
    IF Len(activeNotes) < 2 THEN Null
    ELSE LET sorted          == SortByFreq(activeNotes)
             root            == sorted[1]
             uniqueSemitones == Unique(semitonesFromRoot(sorted))
         IN  [kind      |-> "analysis",
              root      |-> root.note,
              chordName |-> analyzerChordName(uniqueSemitones),
              semitones |-> uniqueSemitones,
              stability |-> analyzerStability(uniqueSemitones)]

\* ------------------------------------------------------------------------
\* The audio voice map (AudioEngine)
\* ------------------------------------------------------------------------
polyphonyLimit == 16

\* explicitKey || `${freq}_${pan}`; the empty string stands for a missing key
voiceKey(freq, pan, explicitKey) ==
    IF explicitKey # "" THEN explicitKey ELSE ToString(freq) \o "_" \o ToString(pan)

\* stopNote on a voice map: the voice of the key, if any, is deleted
stopNote(v, key) ==
    IF key \in DOMAIN v THEN [k \in DOMAIN v \ {key} |-> v[k]] ELSE v

\* a plausible slip: the polyphony limit tested before the old voice is stopped
playNoteLimitFirst(v, freq, type, pan, explicitKey) ==
    LET key == voiceKey(freq, pan, explicitKey)
    IN  IF Cardinality(DOMAIN v) >= polyphonyLimit THEN v
        ELSE [k \in DOMAIN v \cup {key} |->
                 IF k = key THEN [freq |-> freq, type |-> type, pan |-> pan]
                 ELSE v[k]]

\* playNote on a voice map; a voice is its oscillator's frequency and type
\* and its panner's pan
playNote(v, freq, type, pan, explicitKey) ==
    LET key     == voiceKey(freq, pan, explicitKey)
        stopped == stopNote(v, key)
    IN  IF Cardinality(DOMAIN stopped) >= polyphonyLimit THEN stopped
        ELSE [k \in DOMAIN stopped \cup {key} |->
                 IF k = key THEN [freq |-> freq, type |-> type, pan |-> pan]
                 ELSE stopped[k]]

\* one theory tone: played under its key when it is not sounding, else its
\* oscillator retuned in place
theoryTone(v, key, freq, type, pan) ==
    IF key \notin DOMAIN v THEN playNote(v, freq, type, pan, key)
    ELSE [v EXCEPT ![key] = [freq |-> freq, type |-> type, pan |-> v[key].pan]]

\* updateTheoryTones: the base on the left, then the harmony on the right;
\* oscType is the global of that name
updateTheoryTones(v, freqBase, freqHarm, oscType) ==
    theoryTone(theoryTone(v, "theoryL", freqBase, oscType, -1),
               "theoryR", freqHarm, oscType, 1)

stopTheoryTones(v) == stopNote(stopNote(v, "theoryL"), "theoryR")

\* ------------------------------------------------------------------------
\* Key detection from recently played notes
\* ------------------------------------------------------------------------
MODES == {"theory", "practice", "production"}

KEY_DETECTION_WINDOW == 5000

\* a plausible slip: a note exactly one window old is kept
keepRecentInclusive(buffer, cutoff) ==
    SelectSeq(buffer, LAMBDA n : n.time >= cutoff)

\* recentlyPlayedNotes.filter(n => n.time > cutoff)
keepRecent(buffer, cutoff) ==
    SelectSeq(buffer, LAMBDA n : n.time > cutoff)

\* Math.round(score * 100) of a positive fraction
roundPercent(score) == (200 * score.num + score.den) \div (2 * score.den)

\* the display after a detection: the first candidate and its confidence
shownKey(first) ==
    [textContent |-> first.key,
     title       |-> "Confidence: " \o ToString(roundPercent(first.score)) \o "%"]

\* ------------------------------------------------------------------------
\* Inputs
\* ------------------------------------------------------------------------
SharpNames == {NOTE_NAMES[i] : i \in 1..12}

\* the spellings noteToIndex resolves: the 12 sharp names and the flats
RecognizedNames == SharpNames \cup DOMAIN flatToSharp

\* names no table holds
UnrecognizedNames == {"H", "C4", "Drone"}

NoteInputs == RecognizedNames \cup UnrecognizedNames

ScaleInputs == DOMAIN SCALES \cup {"bogus"}

ChordInputs == DOMAIN CHORD_TYPES \cup {"bogus"}

Octaves == (-OctavesBelowZero)..MaxOctave

Indices == (-MaxIndex)..MaxIndex

\* frequencies, as key numbers: every key of the octaves above
Frequencies == ((1 - OctavesBelowZero) * 12)..((MaxOctave + 1) * 12 + 11)

\* note lists: every list of at most MaxNotes names, and every built chord
NoteListInputs ==
    UNION {[1..n -> NoteInputs] : n \in 0..MaxNotes}
      \cup {buildChord(r, t).notes : r \in NoteInputs, t \in DOMAIN CHORD_TYPES}

\* a set of numbers as an ascending list
RECURSIVE Ascending(_)
Ascending(S) ==
    IF S = {} THEN <<>>
    ELSE LET m == CHOOSE x \in S : \A y \in S : x <= y
         IN  <<m>> \o Ascending(S \ {m})

Reversed(s) == [i \in 1..Len(s) |-> s[Len(s) + 1 - i]]

\* note lists for key detection: short lists, every candidate scale, two
\* names with the first one played again, and every set of 3 to MaxDetectSet
\* pitch classes, named upwards from C
DetectInputs ==
    UNION {[1..n -> NoteInputs] : n \in 0..MaxDetectNotes}
      \cup {getScaleNotes(r, DETECT_SCALES[i]).notes :
              r \in SharpNames, i \in 1..Len(DETECT_SCALES)}
      \cup {<<a, b, a>> : a \in RecognizedNames, b \in RecognizedNames}
      \cup {[i \in 1..Cardinality(S) |-> NOTE_NAMES[Ascending(S)[i] + 1]] :
              S \in {T \in SUBSET (0..11) : Cardinality(T) \in 3..MaxDetectSet}}

\* the keys of the modulation calls: every sharp root and two flat ones, the
\* scale types with a diatonic pattern, one without, and an unregistered one
KeyRootInputs == SharpNames \cup {"Db", "Bb"}

KeyScaleInputs == DOMAIN DIATONIC_PATTERNS \cup {"lydian", "bogus"}

\* the calls a client can make
Requests ==
    [name : {"noteToIndex"}, note : NoteInputs]
      \cup [name : {"noteToFrequency"}, note : NoteInputs, octave : Octaves]
      \cup [name : {"getScaleNotes"}, root : NoteInputs, scaleType : ScaleInputs]
      \cup [name : {"isNoteInScale"}, note : NoteInputs, root : NoteInputs,
            scaleType : ScaleInputs]
      \cup [name : {"buildChord"}, root : NoteInputs, chordType : ChordInputs]
      \cup [name : {"getDiatonicChords"}, root : NoteInputs, scaleType : ScaleInputs,
            useSevenths : BOOLEAN]
      \cup [name : {"identifyChord"}, notes : NoteListInputs]
      \cup [name : {"getInterval"}, noteA : NoteInputs, noteB : NoteInputs]
      \cup [name : {"detectKey"}, notes : DetectInputs]
      \cup [name : {"indexToNote"}, index : Indices, useFlats : BOOLEAN]
      \cup [name : {"frequencyToNote"}, freq : Frequencies]
      \cup [name : {"findPivotChords"}, rootA : KeyRootInputs, scaleA : KeyScaleInputs,
            rootB : KeyRootInputs, scaleB : KeyScaleInputs]
      \cup [name : {"suggestModulation"}, fromRoot : KeyRootInputs,
            fromScale : KeyScaleInputs, toRoot : KeyRootInputs,
            toScale : KeyScaleInputs]

\* the key numbers of the sounding notes: from middle C upwards
AnalyzerKeys == 60..(60 + KeySpan)

\* lists of key numbers
KeyLists ==
    UNION {[1..n -> AnalyzerKeys] : n \in 0..MaxSounding}
      \cup UNION {{Ascending(S), Reversed(Ascending(S)),
                   Ascending(S) \o <<Ascending(S)[1]>>} :
                     S \in {T \in SUBSET AnalyzerKeys :
                              Cardinality(T) \in 1..MaxChordTones}}

\* what getActiveNotes hands to the analyzer: each sounding voice with its
\* frequency and a label; the label here is the voice's position in the list
ActiveNotesInputs ==
    {[i \in 1..Len(f) |-> [freq |-> f[i], note |-> "v" \o ToString(i)]] : f \in KeyLists}

AnalyzerRequests == [name : {"identify"}, activeNotes : ActiveNotesInputs]

\* the voice keys of the players: MaxKeys explicit ones, and the one made of a
\* frequency and a pan when no key is given
ExplicitKeys == {"key" \o ToString(i) : i \in 1..MaxKeys}

\* each explicit key with its own pitch, the first key also with another
\* pitch, and one note without a key
PlayInputs ==
    {[freq |-> 200 + i, type |-> "sine", pan |-> 0, explicitKey |-> "key" \o ToString(i)] :
        i \in 1..MaxKeys}
      \cup {[freq |-> 440, type |-> "sine", pan |-> 0, explicitKey |-> "key1"],
            [freq |-> 440, type |-> "sine", pan |-> 0, explicitKey |-> ""]}

StopInputs == ExplicitKeys \cup {"440_0"}

\* the theory tones: a base and its fifth, at two pitches; oscType as loaded
TheoryInputs ==
    {[freqBase |-> 440, freqHarm |-> 660, oscType |-> "sine"],
     [freqBase |-> 220, freqHarm |-> 330, oscType |-> "sine"]}

\* the notes played into the key-detection buffer, and how far the clock
\* moves between two handlers
PlayedNotes == {"C", "G"}

TickSteps == {2500, 4999, 5000}

\* ------------------------------------------------------------------------
\* The engine as a state machine: construction, then the requested call
\* ------------------------------------------------------------------------
\* the fields after the constructor, and no call made yet
EngineConstructed ==
    /\ currentKey = "C"
    /\ currentScale = "major"
    /\ op = "constructor"
    /\ args = <<>>
    /\ ret = Null
    /\ threw = FALSE

\* the application's globals after the script has loaded: no voice, an empty
\* buffer, theory mode, the display as the page has it, the clock at 0
AppLoaded ==
    /\ voices = [k \in {} |-> Null]
    /\ recentlyPlayedNotes = <<>>
    /\ currentAppMode = "theory"
    /\ detectedKeyDisplay = [textContent |-> "", title |-> ""]
    /\ detected = Null
    /\ now = 0

Init ==
    /\ EngineConstructed
    /\ request \in Requests
    /\ AppLoaded

\* the requested call runs to its return statement; no operation writes a field
Returns(r) ==
    /\ op' = request.name
    /\ args' = request
    /\ ret' = r
    /\ threw' = FALSE
    /\ UNCHANGED <<currentKey, currentScale, request>>
    /\ UNCHANGED appVars

NoteToIndex ==
    /\ request.name = "noteToIndex"
    /\ Returns(noteToIndex(request.note))

NoteToFrequency ==
    /\ request.name = "noteToFrequency"
    /\ Returns(noteToFrequency(request.note, request.octave))

GetScaleNotes ==
    /\ request.name = "getScaleNotes"
    /\ Returns(getScaleNotes(request.root, request.scaleType))

IsNoteInScale ==
    /\ request.name = "isNoteInScale"
    /\ Returns(isNoteInScale(request.note, request.root, request.scaleType))

BuildChord ==
    /\ request.name = "buildChord"
    /\ Returns(buildChord(request.root, request.chordType))

GetDiatonicChords ==
    /\ request.name = "getDiatonicChords"
    /\ Returns(getDiatonicChords(request.root, request.scaleType, request.useSevenths))

IdentifyChord ==
    /\ request.name = "identifyChord"
    /\ Returns(identifyChord(request.notes))

GetInterval ==
    /\ request.name = "getInterval"
    /\ Returns(getInterval(request.noteA, request.noteB))

DetectKey ==
    /\ request.name = "detectKey"
    /\ Returns(detectKey(request.notes))

IndexToNote ==
    /\ request.name = "indexToNote"
    /\ Returns(indexToNote(request.index, request.useFlats))

FrequencyToNote ==
    /\ request.name = "frequencyToNote"
    /\ Returns(frequencyToNote(request.freq))

FindPivotChords ==
    /\ request.name = "findPivotChords"
    /\ Returns(findPivotChords(request.rootA, request.scaleA,
                               request.rootB, request.scaleB))

SuggestModulation ==
    /\ request.name = "suggestModulation"
    /\ Returns(suggestModulation(request.fromRoot, request.fromScale,
                                 request.toRoot, request.toScale))

Next ==
    \/ NoteToIndex
    \/ NoteToFrequency
    \/ GetScaleNotes
    \/ IsNoteInScale
    \/ BuildChord
    \/ GetDiatonicChords
    \/ IdentifyChord
    \/ GetInterval
    \/ DetectKey
    \/ IndexToNote
    \/ FrequencyToNote
    \/ FindPivotChords
    \/ SuggestModulation

Spec == Init /\ [][Next]_vars

\* ------------------------------------------------------------------------
\* The audio engine played by the keyboard handlers
\* ------------------------------------------------------------------------
NoRequest == [name |-> "none"]

InitAudio ==
    /\ EngineConstructed
    /\ request = NoRequest
    /\ AppLoaded

PlayNote ==
    \E c \in PlayInputs :
        /\ voices' = playNote(voices, c.freq, c.type, c.pan, c.explicitKey)
        /\ UNCHANGED <<recentlyPlayedNotes, currentAppMode, detectedKeyDisplay,
                       detected, now>>
        /\ UNCHANGED engineVars

StopNote ==
    \E key \in StopInputs :
        /\ voices' = stopNote(voices, key)
        /\ UNCHANGED <<recentlyPlayedNotes, currentAppMode, detectedKeyDisplay,
                       detected, now>>
        /\ UNCHANGED engineVars

UpdateTheoryTones ==
    \E c \in TheoryInputs :
        /\ voices' = updateTheoryTones(voices, c.freqBase, c.freqHarm, c.oscType)
        /\ UNCHANGED <<recentlyPlayedNotes, currentAppMode, detectedKeyDisplay,
                       detected, now>>
        /\ UNCHANGED engineVars

StopTheoryTones ==
    /\ voices' = stopTheoryTones(voices)
    /\ UNCHANGED <<recentlyPlayedNotes, currentAppMode, detectedKeyDisplay,
                   detected, now>>
    /\ UNCHANGED engineVars

NextAudio ==
    \/ PlayNote
    \/ StopNote
    \/ UpdateTheoryTones
    \/ StopTheoryTones

SpecAudio == InitAudio /\ [][NextAudio]_vars

\* ------------------------------------------------------------------------
\* The key-detection buffer fed by played notes
\* ------------------------------------------------------------------------
InitKeyDetection ==
    /\ EngineConstructed
    /\ request = NoRequest
    /\ AppLoaded

\* the clock read by Date.now() moves on between two handlers
Tick ==
    \E d \in TickSteps :
        /\ now + d <= MaxTime
        /\ now' = now + d
        /\ UNCHANGED <<voices, recentlyPlayedNotes, currentAppMode,
                       detectedKeyDisplay, detected>>
        /\ UNCHANGED engineVars

\* setMode: the panels it shows and hides are not part of the state
SetMode ==
    \E mode \in MODES :
        /\ currentAppMode' = mode
        /\ UNCHANGED <<voices, recentlyPlayedNotes, detectedKeyDisplay, detected, now>>
        /\ UNCHANGED engineVars

\* addNoteForKeyDetection(note): Date.now() is read twice, for the time stamp
\* and for the cutoff, and the clock may move by a millisecond in between;
\* detected is the local of that name, null when detection did not run
AddNoteForKeyDetection ==
    \E note \in PlayedNotes, elapsed \in {0, 1} :
        LET pushed   == Append(recentlyPlayedNotes, [note |-> note, time |-> now])
            cutoff   == (now + elapsed) - KEY_DETECTION_WINDOW
            kept     == keepRecent(pushed, cutoff)
            runs     == currentAppMode = "production" /\ Len(kept) >= 3
            notes    == [i \in 1..Len(kept) |-> kept[i].note]
        IN  /\ now + elapsed <= MaxTime
            /\ Len(kept) <= MaxBuffered
            /\ now' = now + elapsed
            /\ recentlyPlayedNotes' = kept
            /\ \E result \in {IF runs THEN detectKey(notes) ELSE Null} :
                  /\ detected' = result
                  /\ detectedKeyDisplay' =
                        (IF result # Null /\ Len(result.list) > 0
                         THEN shownKey(result.list[1])
                         ELSE detectedKeyDisplay)
            /\ UNCHANGED <<voices, currentAppMode>>
            /\ UNCHANGED engineVars

NextKeyDetection ==
    \/ Tick
    \/ SetMode
    \/ AddNoteForKeyDetection

SpecKeyDetection == InitKeyDetection /\ [][NextKeyDetection]_vars

\* ------------------------------------------------------------------------
\* The analyzer asked about the sounding notes
\* ------------------------------------------------------------------------
InitAnalyzer ==
    /\ EngineConstructed
    /\ request \in AnalyzerRequests
    /\ AppLoaded

Identify ==
    /\ request.name = "identify"
    /\ Returns(identify(request.activeNotes))

NextAnalyzer == Identify

SpecAnalyzer == InitAnalyzer /\ [][NextAnalyzer]_vars


\* ------------------------------------------------------------------------
\* Vocabulary of the properties
\* ------------------------------------------------------------------------
\* the pitch class of every recognized spelling, as music theory has it
PitchClass ==
    [n \in RecognizedNames |->
        CASE n = "C"  -> 0  [] n = "C#" -> 1  [] n = "Db" -> 1  [] n = "D"  -> 2
          [] n = "D#" -> 3  [] n = "Eb" -> 3  [] n = "E"  -> 4  [] n = "Fb" -> 4
          [] n = "F"  -> 5  [] n = "F#" -> 6  [] n = "Gb" -> 6  [] n = "G"  -> 7
          [] n = "G#" -> 8  [] n = "Ab" -> 8  [] n = "A"  -> 9  [] n = "A#" -> 10
          [] n = "Bb" -> 10 [] n = "B"  -> 11 [] n = "Cb" -> 11]

\* the sharp spelling of a pitch class
SharpName(p) == CHOOSE n \in SharpNames : PitchClass[n] = p

Elems(s) == {s[i] : i \in 1..Len(s)}

AllRecognized(s) == \A i \in 1..Len(s) : s[i] \in RecognizedNames

PitchClasses(s) == {PitchClass[s[i]] : i \in 1..Len(s)}

\* the pitch-class set pcs, seen from p, is exactly the offsets of template t
MatchesFrom(p, pcs, t) ==
    {(q - p + 12) % 12 : q \in pcs} = Elems(CHORD_TYPES[t].intervals)

MatchingRoots(pcs) == {p \in pcs : \E t \in DOMAIN CHORD_TYPES : MatchesFrom(p, pcs, t)}

\* position in the list s of the first note of pitch class p
FirstPos(s, p) == CHOOSE k \in 1..Len(s) :
    /\ PitchClass[s[k]] = p
    /\ \A j \in 1..(k - 1) : PitchClass[s[j]] # p

\* out is the sharp-spelled, de-duplicated form of s in first-occurrence order
IsCanonicalList(out, s) ==
    /\ Elems(out) \subseteq SharpNames
    /\ PitchClasses(out) = PitchClasses(s)
    /\ \A i, j \in 1..Len(out) :
          i < j => FirstPos(s, PitchClass[out[i]]) < FirstPos(s, PitchClass[out[j]])

\* a completed identifyChord call on recognized spellings
IdentifyCall == op = "identifyChord" /\ AllRecognized(args.notes)

\* a completed buildChord call on a valid root and a registered chord type
BuildCall ==
    /\ op = "buildChord"
    /\ args.root \in RecognizedNames
    /\ args.chordType \in DOMAIN CHORD_TYPES

\* ------------------------------------------------------------------------
\* Properties
\* ------------------------------------------------------------------------

\* C1: isNoteInScale compares pitch classes: for a recognized spelling of the
\* note, a valid root and a registered scale type it returns true exactly when
\* the note's pitch class is one of the scale's pitch classes, so a flat
\* spelling is in the scale whenever its sharp equivalent is.
C1_MembershipByPitchClass ==
    (/\ op = "isNoteInScale"
     /\ args.note \in RecognizedNames
     /\ args.root \in RecognizedNames
     /\ args.scaleType \in DOMAIN SCALES)
    => (ret = TRUE <=>
          PitchClass[args.note]
            \in PitchClasses(getScaleNotes(args.root, args.scaleType).notes))

\* C2 (as stated): every tone of a built chord has octave 4 + floor(offset / 12),
\* whatever the root.
C2_OctaveFromOffsetAlone ==
    BuildCall =>
        \A i \in 1..Len(ret.frequencies) :
            ret.frequencies[i].octave = 4 + (CHORD_TYPES[args.chordType].intervals[i] \div 12)

\* C2 (amended): the octave of a chord tone counts the octaves its offset spans
\* above C4 when added to the root's index: 4 when rootIndex + offset < 12,
\* 5 when it is in 12..23, 6 from 24 on.
C2_OctaveFromRootPlusOffset ==
    BuildCall =>
        \A i \in 1..Len(ret.frequencies) :
            LET above == PitchClass[args.root] + CHORD_TYPES[args.chordType].intervals[i]
            IN  ret.frequencies[i].octave =
                    IF above < 12 THEN 4 ELSE IF above < 24 THEN 5 ELSE 6

\* a chord tone with a template offset below 12 that is placed in octave 5
C2_Witness ==
    /\ BuildCall
    /\ \E i \in 1..Len(ret.frequencies) :
          /\ CHORD_TYPES[args.chordType].intervals[i] < 12
          /\ ret.frequencies[i].octave = 5

\* C3: the i-th tone of a built chord is equal-tempered from the root in
\* octave 4: its key number (octave + 1) * 12 + index is 60 + rootIndex +
\* offset_i, its name is the sharp spelling of (rootIndex + offset_i) mod 12,
\* tones are in template order with strictly ascending key numbers, and
\* C major = C, E, G, C dominant7 = C, E, G, A#.
C3_EqualTemperedFromRoot ==
    BuildCall =>
        LET offsets == CHORD_TYPES[args.chordType].intervals
            rootPc  == PitchClass[args.root]
            key(i)  == (ret.frequencies[i].octave + 1) * 12
                          + PitchClass[ret.frequencies[i].note]
        IN  /\ Len(ret.notes) = Len(offsets)
            /\ Len(ret.frequencies) = Len(offsets)
            /\ \A i \in 1..Len(offsets) :
                  /\ key(i) = 60 + rootPc + offsets[i]
                  /\ ret.frequencies[i].frequency = key(i)
                  /\ ret.notes[i] = SharpName((rootPc + offsets[i]) % 12)
                  /\ ret.frequencies[i].note = ret.notes[i]
            /\ \A i \in 1..(Len(offsets) - 1) : key(i) < key(i + 1)
            /\ (args.root = "C" /\ args.chordType = "major")
                  => ret.notes = <<"C", "E", "G">>
            /\ (args.root = "C" /\ args.chordType = "dominant7")
                  => ret.notes = <<"C", "E", "G", "A#">>

\* a 9th chord built on a flat-spelled root, whose last tone is two octaves up
C3_Witness ==
    /\ BuildCall
    /\ args.root = "Bb"
    /\ args.chordType = "minor9"
    /\ ret.frequencies[5].octave = 6


\* C4 (as stated): identifyChord tries candidate roots in NOTE_NAMES order, so
\* the returned root is the matching root that comes first in NOTE_NAMES,
\* whatever the order of the input.
C4_RootFirstInNoteNames ==
    (IdentifyCall /\ ret.kind = "chord") =>
        LET roots == MatchingRoots(PitchClasses(args.notes))
        IN  /\ PitchClass[ret.root] \in roots
            /\ \A p \in roots : PitchClass[ret.root] <= p

\* C4 (amended): identifyChord tries candidate roots in the order in which the
\* pitch classes first occur in the input, so the returned root is the
\* matching root that occurs first in the input, and the type is the one
\* template that matches from it.
C4_RootFirstInInput ==
    (IdentifyCall /\ ret.kind = "chord") =>
        LET pcs   == PitchClasses(args.notes)
            roots == MatchingRoots(pcs)
            rp    == PitchClass[ret.root]
        IN  /\ ret.confidence = 1
            /\ rp \in roots
            /\ \A p \in roots : FirstPos(args.notes, rp) <= FirstPos(args.notes, p)
            /\ MatchesFrom(rp, pcs, ret.type)

\* a set matching from several roots, played so that the first matching note
\* of the input is not the first matching one in NOTE_NAMES order
C4_Witness ==
    /\ IdentifyCall
    /\ ret.kind = "chord"
    /\ \E p \in MatchingRoots(PitchClasses(args.notes)) : p < PitchClass[ret.root]

\* C5: identification is exact for every registered template: the notes of
\* buildChord(r, t), for every valid root r and every chord type t, are
\* identified with confidence 1.0 as root r (up to spelling) and type t.
C5_IdentifiesEveryBuiltChord ==
    \A r \in RecognizedNames, t \in DOMAIN CHORD_TYPES :
        (op = "identifyChord" /\ args.notes = buildChord(r, t).notes) =>
            /\ ret.kind = "chord"
            /\ ret.confidence = 1
            /\ PitchClass[ret.root] = PitchClass[r]
            /\ ret.type = t

\* C6: every chord returned by getDiatonicChords is diatonic: each of its
\* notes is a note of the scale, for triads and for sevenths.
C6_DiatonicChordsInScale ==
    (/\ op = "getDiatonicChords"
     /\ args.root \in RecognizedNames
     /\ ret.kind = "diatonic")
    => \A i \in 1..Len(ret.entries) :
           Elems(ret.entries[i].chord.notes)
              \subseteq Elems(getScaleNotes(args.root, args.scaleType).notes)

\* the note names a completed call was given
NoteArguments ==
    CASE op \in {"noteToIndex", "noteToFrequency"} -> {args.note}
      [] op \in {"getScaleNotes", "buildChord"} -> {args.root}
      [] op \in {"identifyChord", "detectKey"} -> Elems(args.notes)
      [] op = "getInterval" -> {args.noteA, args.noteB}
      [] OTHER -> {}

\* C7: no note-name-consuming entry point defaults silently: given a name that
\* is not a recognized spelling, identifyChord, detectKey, noteToFrequency,
\* getInterval, getScaleNotes and buildChord end in an invalid-note error.
C7_UnrecognizedNameFails ==
    (/\ op \in {"identifyChord", "detectKey", "noteToFrequency", "getInterval",
                "getScaleNotes", "buildChord"}
     /\ \E n \in NoteArguments : n \notin RecognizedNames)
    => threw

\* C8: noteToIndex maps every recognized spelling to its pitch class in 0..11
\* and fails for every other name; it never returns a value outside 0..11.
C8_NoteToIndexTotalOrFails ==
    op = "noteToIndex" =>
        IF args.note \in RecognizedNames
        THEN ~threw /\ ret = PitchClass[args.note]
        ELSE threw

\* C9 (as stated): with fewer than 2 unique pitch classes identifyChord returns
\* an "Unknown" result of the shape of its no-match result, not null.
C9_FewNotesGiveUnknown ==
    (IdentifyCall /\ Cardinality(PitchClasses(args.notes)) < 2) =>
        /\ ~threw
        /\ ret.kind = "unknown"
        /\ ret.name = "Unknown"
        /\ ret.confidence = 0

\* C9 (amended): with fewer than 2 unique pitch classes identifyChord returns
\* null, without an error.
C9_FewNotesGiveNull ==
    (IdentifyCall /\ Cardinality(PitchClasses(args.notes)) < 2) =>
        ~threw /\ ret = Null

\* one pitch class given twice, in two spellings
C9_Witness ==
    /\ IdentifyCall
    /\ Len(args.notes) >= 2
    /\ Cardinality(Elems(args.notes)) = 2
    /\ Cardinality(PitchClasses(args.notes)) = 1
    /\ ret = Null

\* C10: an input of at least 2 unique pitch classes that no (root, type) pair
\* matches yields name 'Unknown', confidence 0 and the de-duplicated
\* sharp-spelled notes in first-occurrence order; every input of exactly 2
\* unique pitch classes is Unknown; a confidence is 0 or 1.
C10_NoMatchIsUnknown ==
    IdentifyCall =>
        LET pcs == PitchClasses(args.notes)
        IN  /\ (Cardinality(pcs) >= 2 /\ MatchingRoots(pcs) = {}) =>
                  /\ ~threw
                  /\ ret.kind = "unknown"
                  /\ ret.name = "Unknown"
                  /\ ret.confidence = 0
                  /\ Len(ret.notes) = Cardinality(pcs)
                  /\ IsCanonicalList(ret.notes, args.notes)
            /\ Cardinality(pcs) = 2 => ret.kind = "unknown"
            /\ ret # Null => ret.confidence \in {0, 1}

\* three notes, one a respelling of another, left as two unmatched pitch classes
C10_Witness ==
    /\ IdentifyCall
    /\ Len(args.notes) = 3
    /\ \E i \in 1..3 : args.notes[i] \notin SharpNames
    /\ ret.kind = "unknown"
    /\ Len(ret.notes) = 2
    /\ ret.notes[1] # args.notes[1]


\* C11: an unregistered catalog key is an error, distinguishable from the
\* non-error 'unavailable' result: getScaleNotes with an unregistered scale type
\* and buildChord with an unregistered chord type end in an unknown-type error,
\* and getDiatonicChords with an unregistered scale type does not end in the
\* null it returns for a registered scale type without a diatonic pattern.
C11_UnregisteredKeyIsError ==
    /\ (op = "getScaleNotes" /\ args.scaleType \notin DOMAIN SCALES) => threw
    /\ (op = "buildChord" /\ args.chordType \notin DOMAIN CHORD_TYPES) => threw
    /\ (op = "getDiatonicChords" /\ args.scaleType \notin DOMAIN SCALES)
          => (threw \/ ret # Null)

\* a completed getDiatonicChords call on a valid root
DiatonicCall == op = "getDiatonicChords" /\ args.root \in RecognizedNames

\* C12: for a scale type with a diatonic pattern getDiatonicChords returns
\* exactly 7 entries, one per degree in order: degree i, the pattern's i-th
\* numeral, the i-th scale note as root, and the chord built on that note with
\* the pattern's i-th triad type, or seventh type when useSevenths is set;
\* A naturalMinor has numerals i, ii°, III, iv, v, VI, VII; for every other
\* scale type the result is null.
C12_OneChordPerDegree ==
    DiatonicCall =>
        IF args.scaleType \in DOMAIN DIATONIC_PATTERNS
        THEN LET pattern == DIATONIC_PATTERNS[args.scaleType]
                 types   == IF args.useSevenths THEN pattern.sevenths ELSE pattern.triads
                 degPc(i) == (PitchClass[args.root] + SCALES[args.scaleType].intervals[i]) % 12
             IN  /\ ret.kind = "diatonic"
                 /\ Len(ret.entries) = 7
                 /\ \A i \in 1..7 :
                       LET e == ret.entries[i]
                       IN  /\ e.degree = i
                           /\ e.numeral = pattern.numerals[i]
                           /\ e.root = SharpName(degPc(i))
                           /\ e.chordType = types[i]
                           /\ e.chord = buildChord(e.root, types[i])
                           /\ e.chord.type = types[i]
                           /\ e.chord.notes =
                                 [j \in 1..Len(CHORD_TYPES[types[i]].intervals) |->
                                     SharpName((degPc(i) + CHORD_TYPES[types[i]].intervals[j]) % 12)]
                 /\ (args.root = "A" /\ args.scaleType = "naturalMinor") =>
                       [i \in 1..7 |-> ret.entries[i].numeral]
                          = <<"i", "ii°", "III", "iv", "v", "VI", "VII">>
        ELSE ret = Null

\* the seventh chords of A natural minor, ending on G dominant 7th
C12_Witness ==
    /\ DiatonicCall
    /\ args.root = "A"
    /\ args.scaleType = "naturalMinor"
    /\ args.useSevenths
    /\ ret.entries[7].root = "G"
    /\ ret.entries[7].chord.notes = <<"G", "B", "D", "F">>


\* ------------------------------------------------------------------------
\* Vocabulary of the key-detection properties
\* ------------------------------------------------------------------------
\* a completed detectKey call on recognized spellings
DetectCall == op = "detectKey" /\ AllRecognized(args.notes)

\* the scale types tried for each root, in the order they are tried
ScaleOrder == <<"major", "naturalMinor", "dorian", "mixolydian">>

\* the 48 candidates, numbered in iteration order: root outer, scale type inner
Candidates == 0..47

CandidateRoot(k) == k \div 4

CandidateScale(k) == ScaleOrder[(k % 4) + 1]

\* the pitch classes of candidate k's scale
CandidatePcs(k) ==
    {(CandidateRoot(k) + SCALES[CandidateScale(k)].intervals[i]) % 12 :
        i \in 1..Len(SCALES[CandidateScale(k)].intervals)}

\* m and u of candidate k for the played pitch classes pcs
Matched(pcs, k) == Cardinality(pcs \cap CandidatePcs(k))

Unmatched(pcs, k) == Cardinality(pcs \ CandidatePcs(k))

\* m - 2u
Net(pcs, k) == Matched(pcs, k) - 2 * Unmatched(pcs, k)

Eligible(pcs) == {k \in Candidates : Net(pcs, k) > 0}

\* the candidate number of a returned entry
CandidateOf(e) ==
    CHOOSE k \in Candidates :
        /\ CandidateRoot(k) = PitchClass[e.root]
        /\ CandidateScale(k) = e.scale

\* the seven notes of the major scale on pitch class p
MajorScaleNotes(p) ==
    [i \in 1..7 |-> SharpName((p + <<0, 2, 4, 5, 7, 9, 11>>[i]) % 12)]

\* C13: detectKey returns the candidates by score descending, at most 5, ties
\* kept in iteration order: no candidate left out scores higher than one
\* returned, and among equal scores an earlier candidate is never placed after
\* or dropped in favour of a later one.
C13_TopFiveStableByScore ==
    (DetectCall /\ Cardinality(PitchClasses(args.notes)) >= 2) =>
        LET pcs   == PitchClasses(args.notes)
            L     == ret.list
            at(i) == CandidateOf(L[i])
            kept  == {at(i) : i \in 1..Len(L)}
        IN  /\ Len(L) <= 5
            /\ Len(L) = IF Cardinality(Eligible(pcs)) < 5
                        THEN Cardinality(Eligible(pcs)) ELSE 5
            /\ kept \subseteq Eligible(pcs)
            /\ \A i, j \in 1..Len(L) :
                  i < j =>
                     \/ ScoreLess(L[j], L[i])
                     \/ (~ScoreLess(L[i], L[j]) /\ at(i) < at(j))
            /\ \A k \in Eligible(pcs) \ kept :
                  \A i \in 1..Len(L) :
                     \/ Net(pcs, k) < Net(pcs, at(i))
                     \/ (Net(pcs, k) = Net(pcs, at(i)) /\ at(i) < k)

\* five candidates returned while a sixth with the score of the fifth was
\* dropped, and the first is not the first candidate of the iteration
C13_Witness ==
    /\ DetectCall
    /\ Len(ret.list) = 5
    /\ \E k \in Eligible(PitchClasses(args.notes)) :
          /\ \A i \in 1..5 : CandidateOf(ret.list[i]) # k
          /\ Net(PitchClasses(args.notes), k)
                = Net(PitchClasses(args.notes), CandidateOf(ret.list[5]))
    /\ ScoreLess(ret.list[5], ret.list[1])

\* C14: with m matched and u unmatched of the n unique played pitch classes, a
\* candidate is eligible exactly when m - 2u > 0, and every returned candidate
\* reports score (m - 2u) / n, in (0, 1], matchedNotes m and totalNotes n.
C14_ScoreIsNetOverTotal ==
    (DetectCall /\ Cardinality(PitchClasses(args.notes)) >= 2) =>
        LET pcs == PitchClasses(args.notes)
            n   == Cardinality(pcs)
            L   == ret.list
        IN  /\ \A i \in 1..Len(L) :
                  LET k == CandidateOf(L[i])
                  IN  /\ L[i].matchedNotes = Matched(pcs, k)
                      /\ L[i].totalNotes = n
                      /\ Matched(pcs, k) + Unmatched(pcs, k) = n
                      /\ L[i].score.num = Matched(pcs, k) - 2 * Unmatched(pcs, k)
                      /\ L[i].score.den = n
                      /\ 0 < L[i].score.num
                      /\ L[i].score.num <= L[i].score.den
            /\ \A i \in 1..Len(L) : CandidateOf(L[i]) \in Eligible(pcs)
            /\ Len(L) = (IF Cardinality(Eligible(pcs)) < 5
                         THEN Cardinality(Eligible(pcs)) ELSE 5)
            /\ (Eligible(pcs) = {}) <=> (L = <<>>)
            /\ Cardinality(Eligible(pcs)) <= 5 =>
                  {CandidateOf(L[i]) : i \in 1..Len(L)} = Eligible(pcs)

\* three pitch classes of which some candidates match two (m - 2u = 0, left
\* out) and at most five match all three: exactly those are returned
C14_Witness ==
    /\ DetectCall
    /\ Cardinality(PitchClasses(args.notes)) = 3
    /\ \E k \in Candidates : Net(PitchClasses(args.notes), k) = 0
    /\ Cardinality(Eligible(PitchClasses(args.notes))) \in 1..5
    /\ Len(ret.list) = Cardinality(Eligible(PitchClasses(args.notes)))
    /\ \A i \in 1..Len(ret.list) : ret.list[i].score = [num |-> 3, den |-> 3]

\* C15: on the seven notes of the R major scale detectKey returns R major
\* with the maximum score 1.0; the only other candidates of score 1.0 are
\* dorian on degree 2, mixolydian on degree 5 and natural minor on degree 6,
\* so R major is within the top 5, and C major is first for R = C.
C15_MajorScaleDetected ==
    \A p \in 0..11 :
        (op = "detectKey" /\ args.notes = MajorScaleNotes(p)) =>
            LET L     == ret.list
                full  == {i \in 1..Len(L) : L[i].score.num = L[i].score.den}
                modes == {<<SharpName(p), "major">>,
                          <<SharpName((p + 2) % 12), "dorian">>,
                          <<SharpName((p + 7) % 12), "mixolydian">>,
                          <<SharpName((p + 9) % 12), "naturalMinor">>}
            IN  /\ Len(L) = 5
                /\ \E i \in 1..5 :
                      /\ L[i].root = SharpName(p)
                      /\ L[i].scale = "major"
                      /\ L[i].matchedNotes = 7
                      /\ L[i].score = [num |-> 7, den |-> 7]
                /\ {<<L[i].root, L[i].scale>> : i \in full} = modes
                /\ full = 1..4
                /\ p = 0 => (L[1].root = "C" /\ L[1].scale = "major")

\* the A major scale: A major is returned third, after E mixolydian and
\* F# natural minor
C15_Witness ==
    /\ op = "detectKey"
    /\ args.notes = MajorScaleNotes(9)
    /\ ret.list[1].root = "E"
    /\ ret.list[3].root = "A"
    /\ ret.list[3].scale = "major"

\* C16: with fewer than 2 unique pitch classes (empty input, one note, one
\* pitch class repeated in any spellings) detectKey returns an empty list,
\* without an error.
C16_FewNotesGiveNoKeys ==
    (DetectCall /\ Cardinality(PitchClasses(args.notes)) < 2) =>
        /\ ~threw
        /\ ret.kind = "keys"
        /\ ret.list = <<>>

\* one pitch class played twice, in a sharp and a flat spelling
C16_Witness ==
    /\ DetectCall
    /\ Len(args.notes) >= 2
    /\ Cardinality(Elems(args.notes)) >= 2
    /\ Cardinality(PitchClasses(args.notes)) = 1
    /\ ret.list = <<>>


\* ------------------------------------------------------------------------
\* Conversions
\* ------------------------------------------------------------------------

\* C17: frequencyToNote inverts noteToFrequency on pitch class in every
\* octave, also where the key number (octave + 1) * 12 + index is negative:
\* the note recovered from the frequency of note n in octave o is the sharp
\* spelling of n, and every key number 69 + 12k yields 'A'.
C17_PitchClassRecovered ==
    op = "frequencyToNote" =>
        /\ ~threw
        /\ ret = SharpName(args.freq % 12)
        /\ \A n \in RecognizedNames, o \in Octaves :
              noteToFrequency(n, o) = args.freq => ret = SharpName(PitchClass[n])
        /\ (\E k \in -10..10 : args.freq = 69 + 12 * k) => ret = "A"

\* the A six octaves below A4, at the negative key number -3
C17_Witness ==
    /\ op = "frequencyToNote"
    /\ args.freq = noteToFrequency("A", -2)
    /\ args.freq < 0
    /\ ret = "A"

\* C18: noteToFrequency uses key number (octave + 1) * 12 + index: A in octave
\* 4 is key 69, the key of 440 Hz, and for a fixed pitch class the key number,
\* hence the frequency, rises by exactly 12 per octave, in every octave
\* (none is refused).
C18_KeyNumberRisesWithOctave ==
    (op = "noteToFrequency" /\ args.note \in RecognizedNames) =>
        /\ ~threw
        /\ ret = (args.octave + 1) * 12 + PitchClass[args.note]
        /\ (args.note = "A" /\ args.octave = 4) => ret = 69
        /\ noteToFrequency(args.note, args.octave + 1) = ret + 12
        /\ noteToFrequency(args.note, args.octave - 1) = ret - 12
        /\ noteToFrequency(args.note, args.octave - 1) < ret

\* a note below octave 0, whose key number is negative
C18_Witness ==
    /\ op = "noteToFrequency"
    /\ args.note = "Gb"
    /\ args.octave = -2
    /\ ret = -6

\* the names of the flat-spelled display table
FlatNames == {NOTE_NAMES_FLAT[i] : i \in 1..12}

\* C19: name/index round trip: a sharp name maps to an index that maps back to
\* it; a flat name maps back to itself with useFlats and to its enharmonic
\* sharp name without; and every integer index, negative or above 11, maps to
\* a name whose index is the index mod 12.
C19_NameIndexRoundTrip ==
    /\ (op = "noteToIndex" /\ args.note \in SharpNames) =>
          indexToNote(ret, FALSE) = args.note
    /\ (op = "noteToIndex" /\ args.note \in FlatNames) =>
          /\ indexToNote(ret, TRUE) = args.note
          /\ indexToNote(ret, FALSE) = SharpName(PitchClass[args.note])
    /\ (op = "noteToIndex" /\ args.note \in RecognizedNames) =>
          /\ PitchClass[indexToNote(ret, TRUE)] = PitchClass[args.note]
          /\ PitchClass[indexToNote(ret, FALSE)] = PitchClass[args.note]
    /\ op = "indexToNote" =>
          /\ ret \in (IF args.useFlats THEN FlatNames ELSE SharpNames)
          /\ noteToIndex(ret) = args.index % 12
          /\ PitchClass[ret] = args.index % 12

\* a negative index asked for in flat spelling
C19_Witness ==
    /\ op = "indexToNote"
    /\ args.index = -2
    /\ args.useFlats
    /\ ret = "Bb"

\* a completed getInterval call on valid notes
IntervalCall ==
    /\ op = "getInterval"
    /\ args.noteA \in RecognizedNames
    /\ args.noteB \in RecognizedNames

\* C20: getInterval(a, b).semitones is (index(b) - index(a)) mod 12, in 0..11,
\* and 0 exactly for one pitch class; name, just ratio and quality are those of
\* the INTERVALS entry of that semitone count, so neither the synthesized
\* fallback nor the 12-semitone 'Octave' entry is returned.
C20_IntervalWithinOctave ==
    IntervalCall =>
        LET d == (PitchClass[args.noteB] - PitchClass[args.noteA]) % 12
        IN  /\ ret.semitones = d
            /\ ret.semitones \in 0..11
            /\ (ret.semitones = 0) <=> (PitchClass[args.noteA] = PitchClass[args.noteB])
            /\ \E i \in 1..Len(INTERVALS) :
                  /\ INTERVALS[i].semitones = d
                  /\ ret.name = INTERVALS[i].name
                  /\ ret.justRatio = INTERVALS[i].justRatio
                  /\ ret.quality = INTERVALS[i].quality
            /\ ret.name # "Octave"
            /\ ret.justRatio # "N/A"
            /\ ret.quality # "unknown"
            /\ ret.name # ToString(ret.semitones) \o " semitones"

\* a descending pair in two spellings: B down to Db is a major second up
C20_Witness ==
    /\ IntervalCall
    /\ args.noteA = "B"
    /\ args.noteB = "Db"
    /\ ret.semitones = 2
    /\ ret.name = "Major 2nd"


\* ------------------------------------------------------------------------
\* Scale construction
\* ------------------------------------------------------------------------
\* a completed getScaleNotes call on a valid root and a registered scale type
ScaleCall ==
    /\ op = "getScaleNotes"
    /\ args.root \in RecognizedNames
    /\ args.scaleType \in DOMAIN SCALES

\* C21: for a valid root and a registered scale type, notes[i] is the sharp
\* spelling of (root + offset_i) mod 12 in template order, so the first note
\* is the root, the length is the template's (5 to 12) and no pitch class is
\* repeated; C major is C, D, E, F, G, A, B.
C21_ScaleNotesInTemplateOrder ==
    /\ ScaleCall =>
          LET offsets == SCALES[args.scaleType].intervals
              p       == PitchClass[args.root]
          IN  /\ ret.kind = "scale"
              /\ Len(ret.notes) = Len(offsets)
              /\ Len(ret.notes) \in 5..12
              /\ \A i \in 1..Len(offsets) :
                    ret.notes[i] = SharpName((p + offsets[i]) % 12)
              /\ ret.notes[1] = SharpName(p)
              /\ Cardinality(PitchClasses(ret.notes)) = Len(ret.notes)
    /\ (op = "getScaleNotes" /\ args.root = "C" /\ args.scaleType = "major") =>
          ret.notes = <<"C", "D", "E", "F", "G", "A", "B">>

\* a scale whose template order is not chromatic order from C: D major
C21_Witness ==
    /\ ScaleCall
    /\ args.root = "D"
    /\ args.scaleType = "major"
    /\ ret.notes = <<"D", "E", "F#", "G", "A", "B", "C#">>

\* ------------------------------------------------------------------------
\* Soundness of chord identification
\* ------------------------------------------------------------------------
\* C28: whenever identifyChord returns confidence 1, the returned root is one
\* of the input pitch classes and the pitch classes of the returned notes are
\* exactly the input's.
C28_IdentifiedChordIsTheInput ==
    (IdentifyCall /\ ret.kind # "null" /\ ret.confidence = 1) =>
        /\ ret.kind = "chord"
        /\ ret.root \in RecognizedNames
        /\ PitchClass[ret.root] \in PitchClasses(args.notes)
        /\ AllRecognized(ret.notes)
        /\ PitchClasses(ret.notes) = PitchClasses(args.notes)

\* an inverted triad with a flat spelling: the root is not the first note
C28_Witness ==
    /\ IdentifyCall
    /\ ret.kind = "chord"
    /\ ret.confidence = 1
    /\ Cardinality(PitchClasses(args.notes)) = 3
    /\ PitchClass[ret.root] # PitchClass[args.notes[1]]
    /\ \E i \in 1..Len(args.notes) : args.notes[i] \notin SharpNames

\* ------------------------------------------------------------------------
\* Key detection sees pitch-class sets
\* ------------------------------------------------------------------------
\* the names of a pitch-class set, sharp-spelled in chromatic order
RECURSIVE SharpList(_)
SharpList(pcs) ==
    IF pcs = {} THEN <<>>
    ELSE LET p == CHOOSE q \in pcs : \A r \in pcs : q <= r
         IN  <<SharpName(p)>> \o SharpList(pcs \ {p})

\* C29: detectKey's candidate list (order, scores, counts) is that of the
\* sharp-spelled chromatic listing of the input's pitch classes: order,
\* repetition and enharmonic spelling of the input do not matter.
C29_DetectKeyBySetOnly ==
    DetectCall => ret.list = detectKey(SharpList(PitchClasses(args.notes))).list

\* a flat spelling, given above a lower note and played twice, with candidates
C29_Witness ==
    /\ DetectCall
    /\ Len(args.notes) = 3
    /\ args.notes[1] = args.notes[3]
    /\ args.notes[1] \notin SharpNames
    /\ PitchClass[args.notes[1]] > PitchClass[args.notes[2]]
    /\ ret.list # <<>>

\* ------------------------------------------------------------------------
\* Pivot chords and modulation
\* ------------------------------------------------------------------------
Degrees == 1..7

\* the name of the triad on degree i of the key on pitch class p
TriadName(p, scaleType, i) ==
    SharpName((p + SCALES[scaleType].intervals[i]) % 12)
      \o CHORD_TYPES[DIATONIC_PATTERNS[scaleType].triads[i]].symbol

\* the pairs (degree of A, degree of B) that carry the same triad
SharedDegrees(pA, sA, pB, sB) ==
    {q \in Degrees \X Degrees : TriadName(pA, sA, q[1]) = TriadName(pB, sB, q[2])}

\* (i, j) comes before (k, l) when A's loop is the outer one
PairBefore(q, r) == q[1] < r[1] \/ (q[1] = r[1] /\ q[2] < r[2])

\* a completed findPivotChords call
PivotCall == op = "findPivotChords"

BothHavePatterns(sA, sB) ==
    sA \in DOMAIN DIATONIC_PATTERNS /\ sB \in DOMAIN DIATONIC_PATTERNS

\* C23: findPivotChords returns one entry per pair of degrees with the same
\* triad name, A outer and B inner, annotated with both numerals; the empty
\* list when a scale type has no diatonic pattern; never more than 7 entries,
\* exactly 7 for a key paired with itself, and the same set of chord names
\* when the keys are swapped.
C23_PivotsAreSharedTriads ==
    PivotCall =>
        LET pA     == PitchClass[args.rootA]
            pB     == PitchClass[args.rootB]
            shared == SharedDegrees(pA, args.scaleA, pB, args.scaleB)
            list   == ret.list
        IN  /\ ~BothHavePatterns(args.scaleA, args.scaleB) => list = <<>>
            /\ BothHavePatterns(args.scaleA, args.scaleB) =>
                  /\ Len(list) = Cardinality(shared)
                  /\ \A k \in 1..Len(list) : \E q \in shared :
                        /\ Cardinality({r \in shared : PairBefore(r, q)}) = k - 1
                        /\ list[k].chord = TriadName(pA, args.scaleA, q[1])
                        /\ list[k].inKeyA =
                              DIATONIC_PATTERNS[args.scaleA].numerals[q[1]]
                                \o " of " \o args.rootA \o " " \o args.scaleA
                        /\ list[k].inKeyB =
                              DIATONIC_PATTERNS[args.scaleB].numerals[q[2]]
                                \o " of " \o args.rootB \o " " \o args.scaleB
                  /\ (pA = pB /\ args.scaleA = args.scaleB) => Len(list) = 7
            /\ Len(list) <= 7
            /\ {list[k].chord : k \in 1..Len(list)} =
                  LET back == findPivotChords(args.rootB, args.scaleB,
                                              args.rootA, args.scaleA).list
                  IN  {back[k].chord : k \in 1..Len(back)}

\* C major against G major: four shared triads under different numerals
C23_Witness ==
    /\ PivotCall
    /\ args.rootA = "C" /\ args.scaleA = "major"
    /\ args.rootB = "G" /\ args.scaleB = "major"
    /\ Len(ret.list) = 4
    /\ ret.list[1].chord = "C"
    /\ ret.list[1].inKeyA = "I of C major"
    /\ ret.list[1].inKeyB = "IV of G major"

\* a completed suggestModulation call
ModulationCall == op = "suggestModulation"

\* the label of the rule table for distance d
RelationshipLabel(d, sameScale) ==
    CASE d = 0 /\ ~sameScale -> "Parallel (same root, different mode)"
      [] d \in {5, 7}        -> "Dominant/Subdominant relationship"
      [] d \in {3, 9}        -> "Relative Major/Minor"
      [] d \in {2, 10}       -> "Whole step away"
      [] d \in {1, 11}       -> "Half step away (dramatic!)"
      [] OTHER               -> ToString(d) \o " semitones apart"

\* C24: suggestModulation reports d = (to - from) mod 12 in 0..11, the label
\* the rule table gives d, the direct-modulation technique exactly when d is 1
\* or 11, and at most the first 3 pivots.
C24_ModulationByDistance ==
    ModulationCall =>
        LET d      == (PitchClass[args.toRoot] - PitchClass[args.fromRoot] + 12) % 12
            pivots == findPivotChords(args.fromRoot, args.fromScale,
                                      args.toRoot, args.toScale).list
        IN  /\ ret.semitoneDistance = d
            /\ d \in 0..11
            /\ ret.relationship = RelationshipLabel(d, args.fromScale = args.toScale)
            /\ (ret.relationship = "Parallel (same root, different mode)")
                  <=> (d = 0 /\ args.fromScale # args.toScale)
            /\ (ret.relationship = ToString(d) \o " semitones apart")
                  <=> ((d = 0 /\ args.fromScale = args.toScale) \/ d \in {4, 6, 8})
            /\ ("Direct modulation (bold key change)" \in Elems(ret.techniques))
                  <=> d \in {1, 11}
            /\ Len(ret.pivotChords) <= 3
            /\ Len(ret.pivotChords) = (IF Len(pivots) < 3 THEN Len(pivots) ELSE 3)
            /\ \A k \in 1..Len(ret.pivotChords) : ret.pivotChords[k] = pivots[k]

\* the same root and the same mode: the generic label, with all 7 pivots cut to 3
C24_Witness ==
    /\ ModulationCall
    /\ args.fromRoot = "Db" /\ args.toRoot = "C#"
    /\ args.fromScale = "dorian" /\ args.toScale = "dorian"
    /\ ret.relationship = "0 semitones apart"
    /\ Len(ret.pivotChords) = 3

\* ------------------------------------------------------------------------
\* The real-time chord analyzer
\* ------------------------------------------------------------------------
\* a completed identify call on at least 2 sounding notes
AnalyzerCall == op = "identify" /\ Len(args.activeNotes) >= 2

SoundingKeys == {args.activeNotes[i].freq : i \in 1..Len(args.activeNotes)}

LowestSounding == CHOOSE k \in SoundingKeys : \A j \in SoundingKeys : k <= j

\* the distinct distances of the sounding notes above the lowest one
OffsetsAboveLowest == {k - LowestSounding : k \in SoundingKeys}

\* the seven shapes of the analyzer's chord table: close-voiced, root position
NamedShapes ==
    {[name |-> "Major Triad",  offsets |-> {0, 4, 7}],
     [name |-> "Minor Triad",  offsets |-> {0, 3, 7}],
     [name |-> "Diminished",   offsets |-> {0, 3, 6}],
     [name |-> "Augmented",    offsets |-> {0, 4, 8}],
     [name |-> "Major 7th",    offsets |-> {0, 4, 7, 11}],
     [name |-> "Minor 7th",    offsets |-> {0, 3, 7, 10}],
     [name |-> "Dominant 7th", offsets |-> {0, 4, 7, 10}]}

ChordNames == {sh.name : sh \in NamedShapes}

\* the sounding pitch classes are those of shape sh on a root that is not the
\* lowest sounding note
InvertedShape(sh) ==
    \E p \in 0..11 :
        /\ p # LowestSounding % 12
        /\ {k % 12 : k \in SoundingKeys} = {(p + o) % 12 : o \in sh.offsets}

\* C25 as stated: identify returns null for fewer than 2 sounding notes;
\* otherwise its root is the lowest-frequency note, it gives a table name
\* exactly when the distinct offsets above that note are one of the table's
\* shapes, a shape with an octave doubling is not named, and the pitch
\* classes of a table chord on a root other than the lowest note (an
\* inversion) are never named as that chord.  The last part fails: E-G#-C,
\* the first inversion of the C augmented triad, has offsets 0-4-8 and is
\* named 'Augmented'.
C25_InversionNeverNamed ==
    /\ (op = "identify" /\ Len(args.activeNotes) < 2) => ret = Null
    /\ AnalyzerCall =>
          /\ ret.kind = "analysis"
          /\ \E i \in 1..Len(args.activeNotes) :
                /\ args.activeNotes[i].note = ret.root
                /\ args.activeNotes[i].freq = LowestSounding
          /\ \A sh \in NamedShapes :
                ret.chordName = sh.name <=> sh.offsets = OffsetsAboveLowest
          /\ (\E d \in OffsetsAboveLowest : d >= 12) => ret.chordName \notin ChordNames
          /\ \A sh \in NamedShapes : InvertedShape(sh) => ret.chordName # sh.name

\* C25: identify returns null for fewer than 2 sounding notes; otherwise its
\* root is the lowest-frequency note and it gives one of the table's chord
\* names exactly when the distinct offsets above that note, not reduced mod
\* 12, are one of the table's shapes, and then that shape's name: so a shape
\* with an octave doubling is not named, and neither is an inversion of any
\* table chord but the augmented triad; a close-voiced inversion of the
\* augmented triad has offsets 0-4-8 again and is named 'Augmented'.
C25_NamedOnlyInRootPosition ==
    /\ (op = "identify" /\ Len(args.activeNotes) < 2) => ret = Null
    /\ AnalyzerCall =>
          /\ ret.kind = "analysis"
          /\ \E i \in 1..Len(args.activeNotes) :
                /\ args.activeNotes[i].note = ret.root
                /\ args.activeNotes[i].freq = LowestSounding
          /\ ret.semitones = Ascending(OffsetsAboveLowest)
          /\ ret.chordName \in ChordNames
                <=> \E sh \in NamedShapes : sh.offsets = OffsetsAboveLowest
          /\ \A sh \in NamedShapes :
                ret.chordName = sh.name <=> sh.offsets = OffsetsAboveLowest
          /\ (\E d \in OffsetsAboveLowest : d >= 12) => ret.chordName \notin ChordNames
          /\ \A sh \in NamedShapes :
                (InvertedShape(sh) /\ sh.name # "Augmented") =>
                    ret.chordName \notin ChordNames
          /\ \A sh \in NamedShapes :
                (/\ sh.name = "Augmented"
                 /\ InvertedShape(sh)
                 /\ \A d \in OffsetsAboveLowest : d < 12) =>
                    ret.chordName = "Augmented"

\* the C augmented triad in first inversion, E-G#-C with E lowest and not
\* given first: named 'Augmented' with E as root
C25_Witness ==
    /\ AnalyzerCall
    /\ SoundingKeys = {64, 68, 72}
    /\ args.activeNotes[1].freq # LowestSounding
    /\ \E i \in 1..Len(args.activeNotes) :
          args.activeNotes[i].freq = 64 /\ args.activeNotes[i].note = ret.root
    /\ ret.semitones = <<0, 4, 8>>
    /\ ret.chordName = "Augmented"

\* the semitone counts within an octave that the interval catalog calls dissonant
DissonantCounts ==
    {INTERVALS[i].semitones : i \in {j \in 1..Len(INTERVALS) :
        INTERVALS[j].quality = "dissonant" /\ INTERVALS[j].semitones \in 0..11}}

\* C26: stability is 'Dissonant' exactly when a distinct offset above the
\* lowest note, reduced mod 12, is in {1, 2, 6, 10, 11}, else 'Consonant';
\* that set is the catalog's dissonant semitone counts, so for two sounding
\* notes the stability agrees with getInterval's quality.
C26_StabilityByDissonantOffsets ==
    /\ DissonantCounts = {1, 2, 6, 10, 11}
    /\ AnalyzerCall =>
          /\ ret.stability \in {"Consonant", "Dissonant"}
          /\ ret.stability = "Dissonant"
                <=> \E d \in OffsetsAboveLowest : d % 12 \in {1, 2, 6, 10, 11}
          /\ Len(args.activeNotes) = 2 =>
                LET lower  == frequencyToNote(LowestSounding)
                    higher == frequencyToNote(CHOOSE k \in SoundingKeys :
                                                 \A j \in SoundingKeys : j <= k)
                IN  ret.stability = "Dissonant"
                       <=> getInterval(lower, higher).quality = "dissonant"

\* two notes a tritone apart, the higher one given first
C26_Witness ==
    /\ AnalyzerCall
    /\ Len(args.activeNotes) = 2
    /\ OffsetsAboveLowest = {0, 6}
    /\ args.activeNotes[1].freq # LowestSounding
    /\ ret.stability = "Dissonant"

\* ------------------------------------------------------------------------
\* The key-detection buffer
\* ------------------------------------------------------------------------
\* a step that is a call of addNoteForKeyDetection: only such a call changes
\* the buffer, and every such call does (it appends a note that it keeps)
BufferStep == recentlyPlayedNotes' # recentlyPlayedNotes

\* C27: after every call of addNoteForKeyDetection, with t the clock when the
\* call computes its cutoff, the buffer is the previously buffered notes
\* stamped later than t - 5000 ms, in arrival order, followed by the new note;
\* detection runs only in production mode with at least 3 notes left, and the
\* displayed key changes only when detection ran and returned candidates.
C27_TrailingWindow ==
    [][ /\ BufferStep =>
              LET t == now'
                  n == Len(recentlyPlayedNotes')
              IN  /\ n >= 1
                  /\ recentlyPlayedNotes'[n].time \in now..t
                  /\ SubSeq(recentlyPlayedNotes', 1, n - 1) =
                        SelectSeq(recentlyPlayedNotes, LAMBDA e : e.time > t - 5000)
                  /\ \A i \in 1..(n - 1) :
                        recentlyPlayedNotes'[i].time <= recentlyPlayedNotes'[i + 1].time
                  /\ detected' # Null => (currentAppMode = "production" /\ n >= 3)
                  /\ detectedKeyDisplay' # detectedKeyDisplay =>
                        (detected' # Null /\ detected'.list # <<>>)
        /\ detectedKeyDisplay' # detectedKeyDisplay => BufferStep
      ]_vars

\* a key was displayed, and later a note arrived more than 5 s after the
\* others: it is alone in the buffer, detection did not run, the display stays
C27_Witness ==
    /\ Len(recentlyPlayedNotes) = 1
    /\ recentlyPlayedNotes[1].time >= 5000
    /\ currentAppMode = "production"
    /\ detected = Null
    /\ detectedKeyDisplay.textContent # ""

\* ------------------------------------------------------------------------
\* The polyphony limit
\* ------------------------------------------------------------------------
Sounding == DOMAIN voices

\* C30: never more than 16 voices, one voice per key; from any reachable voice
\* map, playNote on a sounding key replaces that voice and leaves the others
\* (also with 16 voices active), playNote on a new key adds its voice when
\* fewer than 16 are active and changes nothing when 16 are, and stopNote on a
\* key that is not sounding changes nothing.
C30_PolyphonyLimit ==
    /\ Cardinality(Sounding) <= 16
    /\ \A c \in PlayInputs :
          LET key   == IF c.explicitKey = "" THEN "440_0" ELSE c.explicitKey
              after == playNote(voices, c.freq, c.type, c.pan, c.explicitKey)
          IN  /\ key \in Sounding =>
                    /\ DOMAIN after = Sounding
                    /\ after[key].freq = c.freq
              /\ (key \notin Sounding /\ Cardinality(Sounding) = 16) => after = voices
              /\ (key \notin Sounding /\ Cardinality(Sounding) < 16) =>
                    /\ DOMAIN after = Sounding \cup {key}
                    /\ after[key].freq = c.freq
              /\ \A k \in Sounding \ {key} : k \in DOMAIN after /\ after[k] = voices[k]
    /\ \A key \in StopInputs :
          /\ key \notin Sounding => stopNote(voices, key) = voices
          /\ key \in Sounding =>
                /\ DOMAIN stopNote(voices, key) = Sounding \ {key}
                /\ \A k \in Sounding \ {key} : stopNote(voices, key)[k] = voices[k]

\* 16 voices active, among them the note without a key and the left theory
\* tone, the right one refused, and the first key replayed at another pitch
C30_Witness ==
    /\ Cardinality(Sounding) = 16
    /\ "440_0" \in Sounding
    /\ "theoryL" \in Sounding
    /\ "theoryR" \notin Sounding
    /\ "key1" \in Sounding
    /\ voices["key1"].freq = 440
====
